---- MODULE Spec2Model ----
(***************************************************************************)
(* Model of the SpeedLink real-time location and navigation engine:        *)
(*   - the Socket.IO gateway (backend/src/realtime/server.ts),             *)
(*   - the adaptive position sampler (frontend location.service.ts),       *)
(*   - the party navigation state client (app/map/page.tsx with the        *)
(*     navigation functions of lib/services).                              *)
(* Every async handler is split at its awaits: one action per resumption.  *)
(***************************************************************************)
EXTENDS Integers, Sequences, FiniteSets, TLC

(***************************************************************************)
(* Bounds of the model                                                     *)
(***************************************************************************)
MaxTicks == 3        \* clock advances per behaviour
MaxUpdates == 3      \* party:update events received per behaviour
MaxJoins == 2        \* party:join events received per behaviour
MaxAcquisitions == 3 \* getCurrentPosition requests per behaviour
MaxStops == 2        \* stopWatching calls per behaviour
MaxNavRequests == 3  \* navigation requests (taps) per behaviour
MaxLeaves == 2         \* party:leave events received per behaviour
MaxMapTicks == 5       \* clock steps of the live map per behaviour
MaxRouteChanges == 2   \* route changes of the creator's two devices per behaviour
MaxPartyEvents == 3    \* party events received by the client per behaviour

(***************************************************************************)
(* Program constants                                                       *)
(***************************************************************************)
minInterval == 1000          \* server.ts:220, ms
LocationTtlMs == 300000      \* storeLocationUpdate: redis.set(key, value, 300)
T0 == 1000000                \* Date.now() when the server is constructed

Conns == {"c1", "c2"}
Users == {"u1", "u2", "u3"}
Parties == {1, 2}
NoUser == "nobody"
NoParty == 0

\* Handshake credentials: none, one that verification rejects, one on which
\* verification throws, and a valid access token per user.
NoToken == "none"
Tokens == {NoToken, "expired", "malformed", "tok_u1", "tok_u2"}
ValidTokens == {"tok_u1", "tok_u2"}

\* AuthService.verifyAccessToken: payload, null, or an exception.
verifyAccessToken(tok) ==
  CASE tok = "tok_u1" -> [kind |-> "payload", sub |-> "u1"]
    [] tok = "tok_u2" -> [kind |-> "payload", sub |-> "u2"]
    [] tok = "malformed" -> [kind |-> "throw", sub |-> NoUser]
    [] OTHER -> [kind |-> "null", sub |-> NoUser]

\* Clock steps: half the rate-limit window, and just short of the store TTL.
ClockSteps == {500, LocationTtlMs - 500}

VARIABLES
  now,                 \* Date.now()
  ticks,               \* clock advances so far
  nEvents,             \* events received so far (names the handler instances)
  joins,               \* party:join events received so far
  connState,           \* per connection: idle, rejected, authenticated, open, closed
  handshake,           \* socket.handshake.auth.token
  userId,              \* socket.userId
  rooms,               \* party rooms the socket is in
  lastLocationUpdate,  \* socket.lastLocationUpdate (0: undefined)
  connPc,              \* position of the io.on('connection') handler
  connTodo,            \* parties the handler's for-loop has still to visit
  tasks,               \* event handlers suspended at an await
  members,             \* PartyService membership (database)
  online,              \* PartyService online flags (database)
  locStore,            \* Redis party:<p>:location:<u>
  nameCache,           \* Redis user:<u>:display_name, expiry time (0: absent)
  emitted,             \* every socket.io emit and every location-store write, in order
  updates,             \* every party:update received, in order, with its verdict
  \* ---- the position sampler (one LocationService instance) ----
  isWatching,          \* LocationService.isWatching
  callbacks,           \* LocationService.callbacks
  errorCallbacks,      \* LocationService.errorCallbacks
  config,              \* LocationService.config
  sampleTimer,         \* LocationService.sampleTimer (0: null)
  timers,              \* the browser's pending setTimeout timers
  acquiring,           \* getCurrentPosition requests in flight
  lastPosition,        \* LocationService.lastPosition
  isMoving,            \* LocationService.isMoving
  nAcquired,           \* getCurrentPosition requests made so far
  stops,               \* stopWatching calls that stopped the sampler so far
  delivered,           \* every notifyCallbacks call, in order
  errorsDelivered,     \* every notifyErrorCallbacks call, in order
  \* ---- party navigation state (map page of each device, and the database) ----
  navRows,             \* the rows of party_navigation_states
  navClock,            \* last update stamp the database gave out
  loading,             \* page: loading
  pageUserId,          \* page: userId
  userPartyId,         \* page: userPartyId
  isPartyLeader,       \* page: isPartyLeader
  currentLocation,     \* page: currentLocation, [lng, lat] or undefined
  navigationState,     \* page: navigationState
  previewRoute,        \* page: previewRoute
  navigationError,     \* page: navigationError
  fetchPc,             \* STEP 6: position of fetchActiveNavigationState
  fetched,             \* STEP 6: what the fetch read
  channel,             \* realtime events on their way to the device
  navTasks,            \* navigation handlers suspended at an await
  navRequests,         \* navigation requests made so far
  navLog,              \* every finished navigation request with its outcome
  navApplied,          \* per device: update stamps of the received states applied
  activeStep,          \* page: activeStep
  remainingDistance,   \* page: remainingDistance
  remainingDuration,   \* page: remainingDuration
  partyMembers,        \* party_members: the party each user is a member of
  \* ---- member markers of the live map (frontend MapView) ----
  mapNow,              \* Date.now() of the browser
  mapTicks,            \* clock steps taken so far
  memberTimestamp,     \* currentParty: timestamp of each member's location
  markerStale,         \* per member: no marker, or its marker is fresh / stale
  checkedAge,          \* per member: the locationAge of the latest check
  nextStaleCheck,      \* when the stale check interval is due next
  \* ---- party client (frontend PartyContext) ----
  currentParty,        \* PartyProvider: currentParty (its id, NoParty for null)
  isLocationSharing,   \* PartyProvider: isLocationSharing
  throttleRef,         \* locationUpdateThrottleRef.current: null, a pending timer, a cancelled one
  throttleDue,         \* when the pending throttle timer fires
  sharing,             \* per captured party: startLocationSharing calls awaiting requestPermission
  callbackParty,       \* currentParty captured by the sample callback given to startWatching
  detailFetches,       \* per party: partyApi.getDetails requests in flight
  clientLog            \* every party event handled and every sample the callback received

connVars == <<connState, handshake, userId, rooms, lastLocationUpdate, connPc, connTodo>>
dbVars == <<members, online, locStore, nameCache>>
clockVars == <<now, ticks>>
gwVars == <<now, ticks, nEvents, joins, connState, handshake, userId, rooms,
            lastLocationUpdate, connPc, connTodo, tasks, members, online,
            locStore, nameCache, emitted, updates>>

samplerVars == <<isWatching, callbacks, errorCallbacks, config, sampleTimer, timers,
                 acquiring, lastPosition, isMoving, nAcquired, stops, delivered,
                 errorsDelivered>>

pageVars == <<loading, pageUserId, userPartyId, isPartyLeader, currentLocation,
              navigationState, previewRoute, navigationError>>
navVars == <<navRows, navClock, loading, pageUserId, userPartyId, isPartyLeader,
             currentLocation, navigationState, previewRoute, navigationError, fetchPc,
             fetched, channel, navTasks, navRequests, navLog, navApplied,
             activeStep, remainingDistance, remainingDuration, partyMembers>>
progressVars == <<activeStep, remainingDistance, remainingDuration>>

mapVars == <<mapNow, mapTicks, memberTimestamp, markerStale, checkedAge, nextStaleCheck>>

clientVars == <<currentParty, isLocationSharing, throttleRef, throttleDue, sharing,
                callbackParty, detailFetches, clientLog>>

vars == <<gwVars, samplerVars, navVars, mapVars, clientVars>>

\* The components share no state: a step of one leaves the others alone.
GatewayOnly == UNCHANGED <<samplerVars, navVars, mapVars, clientVars>>
SamplerOnly == UNCHANGED <<gwVars, navVars, mapVars, clientVars>>
NavOnly == UNCHANGED <<gwVars, samplerVars, mapVars, clientVars>>
MapOnly == UNCHANGED <<gwVars, samplerVars, navVars, clientVars>>
\* The party client calls into the location service of the same page.
ClientOnly == UNCHANGED <<gwVars, navVars, mapVars>>

Min(S) == CHOOSE x \in S : \A y \in S : x <= y

Loc(lat, lng, speed, heading, accuracy) ==
  [latitude |-> lat, longitude |-> lng, speed |-> speed, heading |-> heading,
   accuracy |-> accuracy]

NoSample == Loc(0, 0, 0, 0, 0)
NoSnapshot == [party |-> NoParty, members |-> {}, locations |-> {}]
NoLoc == [set |-> FALSE, sample |-> NoSample, expires |-> 0]

\* The connections an emit is delivered to: the socket itself (socket.emit),
\* the sockets in the party room (io.to(room).emit), or those but the
\* sender (socket.to(room).emit).
Receivers(p, c, to) ==
  IF to = "socket" THEN {c}
  ELSE IF to = "room" THEN {x \in Conns : p \in rooms[x]}
  ELSE IF to = "others" THEN {x \in Conns \ {c} : p \in rooms[x]}
  ELSE {}

\* An emit: event name, party room (or NoParty), the user it is about, the
\* connection whose handler emitted it, the addressee, the handler instance
\* and the payload (an error code or note, a location, a party state).
Emit(ev, p, u, c, to, id, info) ==
  [ev |-> ev, party |-> p, userId |-> u, by |-> c, to |-> to, id |-> id,
   info |-> info, loc |-> NoSample, snap |-> NoSnapshot, at |-> now,
   rcpt |-> Receivers(p, c, to)]

\* PartyService.getUserParties(userId)
getUserParties(u) == {p \in Parties : u \in members[p]}

(***************************************************************************)
(* Initial state: the server has just been constructed. The database may   *)
(* already hold memberships; nobody is online, the location store is empty.*)
(***************************************************************************)
InitGatewayWith(M, S) ==
  /\ now = T0
  /\ ticks = 0
  /\ nEvents = 0
  /\ joins = 0
  /\ connState = [c \in Conns |-> "idle"]
  /\ handshake = [c \in Conns |-> NoToken]
  /\ userId = [c \in Conns |-> NoUser]
  /\ rooms = [c \in Conns |-> {}]
  /\ lastLocationUpdate = [c \in Conns |-> 0]
  /\ connPc = [c \in Conns |-> "none"]
  /\ connTodo = [c \in Conns |-> {}]
  /\ tasks = {}
  /\ members \in M
  /\ online = [p \in Parties |-> [u \in Users |-> FALSE]]
  /\ locStore \in S
  /\ nameCache = [u \in Users |-> 0]
  /\ emitted = <<>>
  /\ updates = <<>>

EmptyStore == [p \in Parties |-> [u \in Users |-> NoLoc]]

InitGateway == InitGatewayWith([Parties -> SUBSET {"u1", "u2"}], {EmptyStore})

(***************************************************************************)
(* The clock                                                               *)
(***************************************************************************)
Advance(d) ==
  /\ ticks < MaxTicks
  /\ now' = now + d
  /\ ticks' = ticks + 1
  /\ UNCHANGED <<nEvents, joins, connVars, tasks, dbVars, emitted, updates>>

(***************************************************************************)
(* io.use: the authentication middleware (server.ts 47-80)                 *)
(***************************************************************************)
\* The middleware without its check of a null payload.
MiddlewareVerdictNoNullCheck(tok) ==
  IF tok = NoToken THEN "reject"
  ELSE IF verifyAccessToken(tok).kind = "throw" THEN "reject"
  ELSE "accept"

\* next(err) is called: "reject"; next(): "accept".
MiddlewareVerdict(tok) ==
  IF tok = NoToken THEN "reject"
  ELSE IF verifyAccessToken(tok).kind = "throw" THEN "reject"
  ELSE IF verifyAccessToken(tok).kind = "null" THEN "reject"
  ELSE "accept"

IoUse(c, tok) ==
  /\ connState[c] = "idle"
  /\ handshake' = [handshake EXCEPT ![c] = tok]
  /\ IF MiddlewareVerdict(tok) = "accept"
       THEN /\ userId' = [userId EXCEPT ![c] = verifyAccessToken(tok).sub]
            /\ connState' = [connState EXCEPT ![c] = "authenticated"]
       ELSE /\ connState' = [connState EXCEPT ![c] = "rejected"]
            /\ UNCHANGED userId
  /\ UNCHANGED <<clockVars, nEvents, joins, rooms, lastLocationUpdate, connPc, connTodo,
                 tasks, dbVars, emitted, updates>>

(***************************************************************************)
(* io.on('connection') (server.ts 83-106, then 108-390 register handlers)  *)
(***************************************************************************)
\* The handler runs up to its first await: getUserParties.
OnConnection(c) ==
  /\ connState[c] = "authenticated"
  /\ connState' = [connState EXCEPT ![c] = "open"]
  /\ connPc' = [connPc EXCEPT ![c] = "getUserParties"]
  /\ UNCHANGED <<clockVars, nEvents, joins, handshake, userId, rooms,
                 lastLocationUpdate, connTodo, tasks, dbVars, emitted, updates>>

\* A loop that stops after its first party.
LoopPartiesFirstOnly(ps) == IF ps = {} THEN {} ELSE {Min(ps)}

\* Parties the connection handler's loop visits.
LoopParties(ps) == ps

\* getUserParties resolved: enter the for-loop; for the first party join the
\* room and await updateMemberOnlineStatus. With no party the handlers are
\* registered at once.
ConnGotParties(c) ==
  /\ connPc[c] = "getUserParties"
  /\ LET ps == LoopParties(getUserParties(userId[c])) IN
       IF ps = {}
         THEN /\ connPc' = [connPc EXCEPT ![c] = "ready"]
              /\ UNCHANGED <<connTodo, rooms>>
         ELSE /\ connPc' = [connPc EXCEPT ![c] = "status"]
              /\ connTodo' = [connTodo EXCEPT ![c] = ps]
              /\ rooms' = [rooms EXCEPT ![c] = @ \cup {Min(ps)}]
  /\ UNCHANGED <<clockVars, nEvents, joins, connState, handshake, userId,
                 lastLocationUpdate, tasks, dbVars, emitted, updates>>

\* updateMemberOnlineStatus(party, userId, true) resolved: broadcast
\* party:member-online, then the next iteration or the end of the loop.
ConnStatusDone(c) ==
  /\ connPc[c] = "status"
  /\ LET p == Min(connTodo[c])
         rest == connTodo[c] \ {p} IN
       /\ online' = [online EXCEPT ![p][userId[c]] = TRUE]
       /\ emitted' = Append(emitted,
                       Emit("party:member-online", p, userId[c], c, "room", 0, ""))
       /\ connTodo' = [connTodo EXCEPT ![c] = rest]
       /\ IF rest = {}
            THEN /\ connPc' = [connPc EXCEPT ![c] = "ready"]
                 /\ UNCHANGED rooms
            ELSE /\ rooms' = [rooms EXCEPT ![c] = @ \cup {Min(rest)}]
                 /\ UNCHANGED connPc
  /\ UNCHANGED <<clockVars, nEvents, joins, connState, handshake, userId,
                 lastLocationUpdate, tasks, members, locStore, nameCache, updates>>

\* The event handlers exist once the connection handler has passed its loop.
HandlersRegistered(c) == connPc[c] = "ready"

(***************************************************************************)
(* The client closes its connection; socket.on('disconnect') (372-390)     *)
(***************************************************************************)
NewTask(kind, c, p, pc, info, loc) ==
  [id |-> nEvents + 1, kind |-> kind, conn |-> c, party |-> p, pc |-> pc,
   info |-> info, loc |-> loc, todo |-> {}, at |-> now]

\* Socket.IO leaves every room and emits 'disconnect' to the listeners that
\* are registered at that moment; the listener runs to its first await.
ClientClose(c) ==
  /\ connState[c] = "open"
  /\ connState' = [connState EXCEPT ![c] = "closed"]
  /\ rooms' = [rooms EXCEPT ![c] = {}]
  /\ IF HandlersRegistered(c)
       THEN /\ tasks' = tasks \cup {NewTask("disconnect", c, NoParty, "getUserParties", "", NoSample)}
            /\ nEvents' = nEvents + 1
       ELSE UNCHANGED <<tasks, nEvents>>
  /\ UNCHANGED <<clockVars, joins, handshake, userId, lastLocationUpdate,
                 connPc, connTodo, dbVars, emitted, updates>>

DiscGotParties(t) ==
  /\ t \in tasks /\ t.kind = "disconnect" /\ t.pc = "getUserParties"
  /\ LET ps == getUserParties(userId[t.conn]) IN
       tasks' = IF ps = {} THEN tasks \ {t}
                ELSE (tasks \ {t}) \cup {[t EXCEPT !.pc = "status", !.todo = ps]}
  /\ UNCHANGED <<clockVars, nEvents, joins, connVars, dbVars, emitted, updates>>

DiscStatusDone(t) ==
  /\ t \in tasks /\ t.kind = "disconnect" /\ t.pc = "status"
  /\ LET p == Min(t.todo)
         rest == t.todo \ {p}
         u == userId[t.conn] IN
       /\ online' = [online EXCEPT ![p][u] = FALSE]
       /\ emitted' = Append(emitted,
                       Emit("party:member-offline", p, u, t.conn, "room", t.id, ""))
       /\ tasks' = IF rest = {} THEN tasks \ {t}
                   ELSE (tasks \ {t}) \cup {[t EXCEPT !.todo = rest]}
  /\ UNCHANGED <<clockVars, nEvents, joins, connVars, members, locStore,
                 nameCache, updates>>

(***************************************************************************)
(* socket.on('party:update') (server.ts 216-315)                           *)
(***************************************************************************)
Unknown == 0 - 1     \* a null speed / heading / accuracy of the client sample

\* x || 0
OrZero(x) == IF x = Unknown THEN 0 ELSE x

\* The validation without the upper bound of the latitude.
InvalidLocationNoUpperLatitude(loc) ==
  \/ loc.latitude < 0 - 90
  \/ loc.longitude < 0 - 180
  \/ loc.longitude > 180

\* server.ts 241-248 (the coordinates of the model are always numbers)
InvalidLocation(loc) ==
  \/ loc.latitude < 0 - 90
  \/ loc.latitude > 90
  \/ loc.longitude < 0 - 180
  \/ loc.longitude > 180

\* The interval compared in seconds against a clock in milliseconds.
TooFrequentInSeconds(c) ==
  /\ lastLocationUpdate[c] # 0
  /\ now - lastLocationUpdate[c] < minInterval \div 1000

\* server.ts 222: too soon after the update that last passed the limiter
TooFrequent(c) ==
  /\ lastLocationUpdate[c] # 0
  /\ now - lastLocationUpdate[c] < minInterval

\* The event arrives; the handler runs to its first await (isUserInParty) or
\* returns at once when the update is too frequent.
OnPartyUpdate(c, p, loc) ==
  /\ connState[c] = "open"
  /\ HandlersRegistered(c)
  /\ Len(updates) < MaxUpdates
  /\ nEvents' = nEvents + 1
  /\ IF TooFrequent(c)
       THEN /\ updates' = Append(updates, [id |-> nEvents + 1, conn |-> c, at |-> now,
                                           party |-> p, loc |-> loc,
                                           verdict |-> "dropped"])
            /\ UNCHANGED <<lastLocationUpdate, tasks>>
       ELSE /\ updates' = Append(updates, [id |-> nEvents + 1, conn |-> c, at |-> now,
                                           party |-> p, loc |-> loc,
                                           verdict |-> "passed"])
            /\ lastLocationUpdate' = [lastLocationUpdate EXCEPT ![c] = now]
            /\ tasks' = tasks \cup {NewTask("update", c, p, "isUserInParty", "", loc)}
  /\ UNCHANGED <<clockVars, joins, connState, handshake, userId, rooms, connPc, connTodo,
                 dbVars, emitted>>

\* What the catch of the handler emits (server.ts 305-314)
Failure(t) ==
  Emit("error", NoParty, userId[t.conn], t.conn, "socket", t.id, "LOCATION_UPDATE_ERROR")

\* The catch of the handler (server.ts 305-314): an awaited call rejected.
UpdateFailed(t) ==
  /\ emitted' = Append(emitted, Failure(t))
  /\ tasks' = tasks \ {t}

\* isUserInParty resolved: NOT_IN_PARTY, INVALID_LOCATION, or on to the store.
UpdMemberChecked(t, ok) ==
  /\ t \in tasks /\ t.kind = "update" /\ t.pc = "isUserInParty"
  /\ LET u == userId[t.conn] IN
       IF ~ok
         THEN UpdateFailed(t)
         ELSE IF u \notin members[t.party]
           THEN /\ emitted' = Append(emitted,
                     Emit("error", NoParty, u, t.conn, "socket", t.id, "NOT_IN_PARTY"))
                /\ tasks' = tasks \ {t}
           ELSE IF InvalidLocation(t.loc)
             THEN /\ emitted' = Append(emitted,
                       Emit("error", NoParty, u, t.conn, "socket", t.id,
                            "INVALID_LOCATION"))
                  /\ tasks' = tasks \ {t}
             ELSE /\ tasks' = (tasks \ {t}) \cup {[t EXCEPT !.pc = "storeLocationUpdate"]}
                  /\ UNCHANGED emitted
  /\ UNCHANGED <<clockVars, nEvents, joins, connVars, dbVars, updates>>

\* What storeLocationUpdate is given (server.ts 257-266)
StoredSample(loc) ==
  Loc(loc.latitude, loc.longitude, OrZero(loc.speed), OrZero(loc.heading),
      OrZero(loc.accuracy))

\* The write of storeLocationUpdate as an entry of the log.
StoreWrite(t) ==
  [Emit("store:location", t.party, userId[t.conn], t.conn, "redis", t.id, "")
     EXCEPT !.loc = StoredSample(t.loc)]

\* A rejected storeLocationUpdate as an entry of the log.
StoreRejected(t) ==
  Emit("store:rejected", t.party, userId[t.conn], t.conn, "redis", t.id, "")

\* The handler with the rejection of the store write swallowed: it carries
\* on to the name lookup and the broadcast.
UpdStoredSwallowsFailure(t, ok) ==
  /\ t \in tasks /\ t.kind = "update" /\ t.pc = "storeLocationUpdate"
  /\ LET u == userId[t.conn] IN
       IF ok
         THEN /\ locStore' = [locStore EXCEPT ![t.party][u] =
                     [set |-> TRUE, sample |-> StoredSample(t.loc),
                      expires |-> now + LocationTtlMs]]
              /\ emitted' = Append(emitted, StoreWrite(t))
         ELSE /\ emitted' = Append(emitted, StoreRejected(t))
              /\ UNCHANGED locStore
  /\ tasks' = (tasks \ {t}) \cup {[t EXCEPT !.pc = "cacheGet"]}
  /\ UNCHANGED <<clockVars, nEvents, joins, connVars, members, online, nameCache, updates>>

\* The handler without the store write: straight on to the name lookup.
UpdStoredSkipsWrite(t, ok) ==
  /\ t \in tasks /\ t.kind = "update" /\ t.pc = "storeLocationUpdate"
  /\ tasks' = (tasks \ {t}) \cup {[t EXCEPT !.pc = "cacheGet"]}
  /\ UNCHANGED <<clockVars, nEvents, joins, connVars, dbVars, emitted, updates>>

\* storeLocationUpdate resolved (redis.set with a 300 s expiry) or rejected
\* (logged, then the catch of 305-314); then redis.get of the display name is awaited.
\* A write that leaves the expiry of a key that is still set as it was.
UpdStoredKeepsTtl(t, ok) ==
  /\ t \in tasks /\ t.kind = "update" /\ t.pc = "storeLocationUpdate"
  /\ LET u == userId[t.conn]
         live == locStore[t.party][u].set /\ locStore[t.party][u].expires > now IN
       IF ok
         THEN /\ locStore' = [locStore EXCEPT ![t.party][u] =
                     [set |-> TRUE, sample |-> StoredSample(t.loc),
                      expires |-> IF live THEN locStore[t.party][u].expires
                                  ELSE now + LocationTtlMs]]
              /\ emitted' = Append(emitted, StoreWrite(t))
              /\ tasks' = (tasks \ {t}) \cup {[t EXCEPT !.pc = "cacheGet"]}
         ELSE /\ emitted' = emitted \o <<StoreRejected(t), Failure(t)>>
              /\ tasks' = tasks \ {t}
              /\ UNCHANGED locStore
  /\ UNCHANGED <<clockVars, nEvents, joins, connVars, members, online, nameCache, updates>>

\* storeLocationUpdate resolved: redis.set(key, value, 300) has written the
\* key with a new expiry (RedisConnection.set: setEx), or it rejected.
UpdStored(t, ok) ==
  /\ t \in tasks /\ t.kind = "update" /\ t.pc = "storeLocationUpdate"
  /\ LET u == userId[t.conn] IN
       IF ok
         THEN /\ locStore' = [locStore EXCEPT ![t.party][u] =
                     [set |-> TRUE, sample |-> StoredSample(t.loc),
                      expires |-> now + LocationTtlMs]]
              /\ emitted' = Append(emitted, StoreWrite(t))
              /\ tasks' = (tasks \ {t}) \cup {[t EXCEPT !.pc = "cacheGet"]}
         ELSE /\ emitted' = emitted \o <<StoreRejected(t), Failure(t)>>
              /\ tasks' = tasks \ {t}
              /\ UNCHANGED locStore
  /\ UNCHANGED <<clockVars, nEvents, joins, connVars, members, online, nameCache, updates>>

\* The LocationBroadcast of server.ts 285-297, to the whole party room
Broadcast(t) ==
  [Emit("party:location-update", t.party, userId[t.conn], t.conn, "room", t.id, "")
     EXCEPT !.loc = StoredSample(t.loc)]

\* redis.get(cacheKey) resolved: a hit broadcasts, a miss queries the
\* database; or it rejected.
UpdCacheGot(t, ok) ==
  /\ t \in tasks /\ t.kind = "update" /\ t.pc = "cacheGet"
  /\ IF ~ok
       THEN UpdateFailed(t)
       ELSE IF nameCache[userId[t.conn]] > now
         THEN /\ emitted' = Append(emitted, Broadcast(t))
              /\ tasks' = tasks \ {t}
         ELSE /\ tasks' = (tasks \ {t}) \cup {[t EXCEPT !.pc = "dbQuery"]}
              /\ UNCHANGED emitted
  /\ UNCHANGED <<clockVars, nEvents, joins, connVars, dbVars, updates>>

\* db.query resolved: displayName is never empty, so redis.set is awaited;
\* or it rejected.
UpdDbDone(t, ok) ==
  /\ t \in tasks /\ t.kind = "update" /\ t.pc = "dbQuery"
  /\ IF ok
       THEN /\ tasks' = (tasks \ {t}) \cup {[t EXCEPT !.pc = "cacheSet"]}
            /\ UNCHANGED emitted
       ELSE UpdateFailed(t)
  /\ UNCHANGED <<clockVars, nEvents, joins, connVars, dbVars, updates>>

\* redis.set(cacheKey, displayName, 300) resolved: broadcast; or it rejected.
UpdCacheSet(t, ok) ==
  /\ t \in tasks /\ t.kind = "update" /\ t.pc = "cacheSet"
  /\ IF ok
       THEN /\ nameCache' = [nameCache EXCEPT ![userId[t.conn]] = now + LocationTtlMs]
            /\ emitted' = Append(emitted, Broadcast(t))
            /\ tasks' = tasks \ {t}
       ELSE /\ UpdateFailed(t)
            /\ UNCHANGED nameCache
  /\ UNCHANGED <<clockVars, nEvents, joins, connVars, members, online, locStore, updates>>

(***************************************************************************)
(* socket.on('party:leave') (server.ts 184-213)                            *)
(***************************************************************************)
\* party:leave events received so far: every handler is either still at its
\* await or has ended with party:left or with PARTY_LEAVE_ERROR.
leaves ==
  Cardinality({t \in tasks : t.kind = "leave"})
  + Cardinality({k \in 1..Len(emitted) :
                   emitted[k].ev = "party:left" \/ emitted[k].info = "PARTY_LEAVE_ERROR"})

\* PartyService.leaveParty(partyId, userId): the user must be a current
\* member; the membership is removed.
leaveParty(M, p, u) == [M EXCEPT ![p] = @ \ {u}]

\* The event arrives; the handler runs to its await of leaveParty.
OnPartyLeave(c, p) ==
  /\ connState[c] = "open"
  /\ HandlersRegistered(c)
  /\ leaves < MaxLeaves
  /\ nEvents' = nEvents + 1
  /\ tasks' = tasks \cup {NewTask("leave", c, p, "leaveParty", "", NoSample)}
  /\ UNCHANGED <<clockVars, joins, connVars, dbVars, emitted, updates>>

\* What the handler emits after leaveParty and socket.leave(room).
LeftEmits(t) ==
  << Emit("party:member-left", t.party, userId[t.conn], t.conn, "others", t.id, ""),
     Emit("party:left", t.party, userId[t.conn], t.conn, "socket", t.id, "") >>

\* The handler without socket.leave(room): the socket stays in the room.
LeaveDoneStaysInRoom(t, ok) ==
  /\ t \in tasks /\ t.kind = "leave" /\ t.pc = "leaveParty"
  /\ LET u == userId[t.conn] IN
       IF ok /\ u \in members[t.party]
         THEN /\ members' = leaveParty(members, t.party, u)
              /\ emitted' = emitted \o LeftEmits(t)
         ELSE /\ emitted' = Append(emitted,
                     Emit("error", NoParty, u, t.conn, "socket", t.id, "PARTY_LEAVE_ERROR"))
              /\ UNCHANGED members
  /\ tasks' = tasks \ {t}
  /\ UNCHANGED <<clockVars, nEvents, joins, connVars, online, locStore, nameCache, updates>>

\* leaveParty resolved: leave the room, party:member-left to the others in
\* the room, party:left to the socket. Or it rejected (not a member, or
\* the service failed): PARTY_LEAVE_ERROR to the socket, nothing else.
LeaveDone(t, ok) ==
  /\ t \in tasks /\ t.kind = "leave" /\ t.pc = "leaveParty"
  /\ LET u == userId[t.conn] IN
       IF ok /\ u \in members[t.party]
         THEN /\ members' = leaveParty(members, t.party, u)
              /\ rooms' = [rooms EXCEPT ![t.conn] = @ \ {t.party}]
              /\ emitted' = emitted \o LeftEmits(t)
         ELSE /\ emitted' = Append(emitted,
                     Emit("error", NoParty, u, t.conn, "socket", t.id, "PARTY_LEAVE_ERROR"))
              /\ UNCHANGED <<members, rooms>>
  /\ tasks' = tasks \ {t}
  /\ UNCHANGED <<clockVars, nEvents, joins, connState, handshake, userId,
                 lastLocationUpdate, connPc, connTodo, online, locStore, nameCache, updates>>

\* partyApi.leave(partyId) of the client's leaveParty (PartyContext.tsx 313):
\* the REST call that removes the membership, beside the socket event.
RestLeave(c, p) ==
  /\ connState[c] = "open"
  /\ userId[c] \in members[p]
  /\ \E t \in tasks : t.kind = "leave" /\ t.conn = c /\ t.party = p
  /\ members' = leaveParty(members, p, userId[c])
  /\ UNCHANGED <<clockVars, nEvents, joins, connVars, tasks, online, locStore, nameCache,
                 emitted, updates>>

(***************************************************************************)
(* socket.on('party:join') (server.ts 140-181)                             *)
(***************************************************************************)
Codes == {"code1", "code2", "nocode"}

\* PartyService.getPartyByCode: the active party with that code, or null.
getPartyByCode(code) ==
  CASE code = "code1" -> 1
    [] code = "code2" -> 2
    [] OTHER -> NoParty

\* The members of the party whose stored location has not expired.
LiveLocations(p) ==
  {u \in members[p] : locStore[p][u].set /\ locStore[p][u].expires > now}

\* PartyService.getPartyState: the members, each with its stored location.
getPartyState(p) ==
  [party |-> p,
   members |-> members[p],
   locations |-> {<<u, locStore[p][u].sample>> : u \in LiveLocations(p)}]

OnPartyJoin(c, code) ==
  /\ connState[c] = "open"
  /\ HandlersRegistered(c)
  /\ joins < MaxJoins
  /\ joins' = joins + 1
  /\ nEvents' = nEvents + 1
  /\ tasks' = tasks \cup {NewTask("join", c, NoParty, "getPartyByCode", code, NoSample)}
  /\ UNCHANGED <<clockVars, connVars, dbVars, emitted, updates>>

\* getPartyByCode resolved: PARTY_NOT_FOUND, or joinParty is awaited.
JoinLookedUp(t) ==
  /\ t \in tasks /\ t.kind = "join" /\ t.pc = "getPartyByCode"
  /\ LET party == getPartyByCode(t.info) IN
       IF party = NoParty
         THEN /\ emitted' = Append(emitted,
                   Emit("error", NoParty, userId[t.conn], t.conn, "socket", t.id,
                        "PARTY_NOT_FOUND"))
              /\ tasks' = tasks \ {t}
         ELSE /\ tasks' = (tasks \ {t}) \cup {[t EXCEPT !.pc = "joinParty", !.party = party]}
              /\ UNCHANGED emitted
  /\ UNCHANGED <<clockVars, nEvents, joins, connVars, dbVars, updates>>

\* PartyService.joinParty: the membership record is unique per (party, user).
joinParty(p, u) == [members EXCEPT ![p] = @ \cup {u}]

\* The handler with socket.join(room) ahead of the outcome of joinParty.
JoinRecordedJoinsFirst(t, ok) ==
  /\ t \in tasks /\ t.kind = "join" /\ t.pc = "joinParty"
  /\ rooms' = [rooms EXCEPT ![t.conn] = @ \cup {t.party}]
  /\ LET u == userId[t.conn] IN
       IF ok
         THEN /\ members' = [members EXCEPT ![t.party] = @ \cup {u}]
              /\ tasks' = (tasks \ {t}) \cup
                   {[t EXCEPT !.pc = "getPartyState",
                              !.info = IF u \in members[t.party] THEN "rejoin" ELSE "first"]}
              /\ UNCHANGED emitted
         ELSE /\ emitted' = Append(emitted,
                   Emit("error", NoParty, u, t.conn, "socket", t.id, "PARTY_JOIN_ERROR"))
              /\ tasks' = tasks \ {t}
              /\ UNCHANGED members
  /\ UNCHANGED <<clockVars, nEvents, joins, connState, handshake, userId, lastLocationUpdate,
                 connPc, connTodo, online, locStore, nameCache, updates>>

\* joinParty resolved (or rejected: PARTY_JOIN_ERROR): the socket joins the
\* room and getPartyState is awaited. The task remembers whether the user
\* was a member already.
JoinRecorded(t, ok) ==
  /\ t \in tasks /\ t.kind = "join" /\ t.pc = "joinParty"
  /\ LET u == userId[t.conn] IN
       IF ok
         THEN /\ members' = joinParty(t.party, u)
              /\ rooms' = [rooms EXCEPT ![t.conn] = @ \cup {t.party}]
              /\ tasks' = (tasks \ {t}) \cup
                   {[t EXCEPT !.pc = "getPartyState",
                              !.info = IF u \in members[t.party] THEN "rejoin" ELSE "first"]}
              /\ UNCHANGED emitted
         ELSE /\ emitted' = Append(emitted,
                   Emit("error", NoParty, u, t.conn, "socket", t.id, "PARTY_JOIN_ERROR"))
              /\ tasks' = tasks \ {t}
              /\ UNCHANGED <<members, rooms>>
  /\ UNCHANGED <<clockVars, nEvents, joins, connState, handshake, userId, lastLocationUpdate,
                 connPc, connTodo, online, locStore, nameCache, updates>>

\* The party record alone, without the members and their locations.
JoinedPayloadPartyOnly(p) == [party |-> p, members |-> {}, locations |-> {}]

\* The payload of party:joined: the party state as just read (159-162).
JoinedPayload(p) == getPartyState(p)

\* getPartyState resolved: party:joined to the socket, party:member-joined to
\* the rest of the room. Or it rejected: PARTY_JOIN_ERROR (the catch of
\* 176-181), with the membership recorded and the room joined.
JoinGotState(t, ok) ==
  /\ t \in tasks /\ t.kind = "join" /\ t.pc = "getPartyState"
  /\ emitted' =
       IF ok
         THEN emitted \o
           << [Emit("party:joined", t.party, userId[t.conn], t.conn, "socket", t.id, t.info)
                 EXCEPT !.snap = JoinedPayload(t.party)],
              Emit("party:member-joined", t.party, userId[t.conn], t.conn, "others", t.id,
                   t.info) >>
         ELSE Append(emitted,
                Emit("error", NoParty, userId[t.conn], t.conn, "socket", t.id,
                     "PARTY_JOIN_ERROR"))
  /\ tasks' = tasks \ {t}
  /\ UNCHANGED <<clockVars, nEvents, joins, connVars, dbVars, updates>>

(***************************************************************************)
(* The adaptive position sampler (frontend/src/services/location.service.ts)*)
(* Speeds are in tenths of a metre per second, coordinates in millionths   *)
(* of a degree, times in milliseconds.                                     *)
(***************************************************************************)
movingSampleInterval == 2000
stationarySampleInterval == 10000
motionThreshold == 15
RetryDelay == 5000

DEFAULT_CONFIG ==
  [movingSampleInterval |-> movingSampleInterval,
   stationarySampleInterval |-> stationarySampleInterval,
   motionThreshold |-> motionThreshold]

\* 'geolocation' in navigator: the sampler runs in a browser that has it.
isSupported == TRUE

Callbacks == {"cb1", "cb2"}
ErrorCallbacks == {"ecb1"}
NoCallback == "undefined"
ErrorCodes == {"PERMISSION_DENIED", "TIMEOUT"}

Position(lat, lng, speed, ts) ==
  [latitude |-> lat, longitude |-> lng, speed |-> speed, timestamp |-> ts]

NoPosition == Position(0, 0, Unknown, 0)

\* Fixes the browser may report: two places 100 millionths of a degree apart
\* on one meridian, speed null, 1.0 or 2.0 m/s, two timestamps.
Positions ==
  {Position(lat, 4000000, speed, ts) :
     lat \in {52000000, 52000100}, speed \in {Unknown, 10, 20},
     ts \in {T0, T0 + movingSampleInterval}}

Abs(x) == IF x < 0 THEN 0 - x ELSE x

\* calculateDistance, in millimetres. Every position of the model lies on one
\* meridian (lon1 = lon2), where the haversine formula reduces to R * |dphi|:
\* 6371e3 * pi / 180 = 111195 metres per degree of latitude.
calculateDistance(lat1, lon1, lat2, lon2) ==
  (Abs(lat2 - lat1) * 111195) \div 1000

\* updateMotionState: the value it assigns to isMoving.
updateMotionState(position) ==
  IF position.speed # Unknown /\ position.speed >= config.motionThreshold
    THEN TRUE
    ELSE IF lastPosition # NoPosition
      THEN LET distance == calculateDistance(lastPosition.latitude, lastPosition.longitude,
                                             position.latitude, position.longitude)
               timeDelta == position.timestamp - lastPosition.timestamp
           IN  \* distance / timeDelta >= threshold, in mm/ms against dm/s
               IF timeDelta > 0
                 THEN distance * 10 >= config.motionThreshold * timeDelta
                 ELSE 0 >= config.motionThreshold
      ELSE FALSE

InitSampler ==
  /\ isWatching = FALSE
  /\ callbacks = {}
  /\ errorCallbacks = {}
  /\ config = DEFAULT_CONFIG
  /\ sampleTimer = 0
  /\ timers = {}
  /\ acquiring = {}
  /\ lastPosition = NoPosition
  /\ isMoving = FALSE
  /\ nAcquired = 0
  /\ stops = 0
  /\ delivered = <<>>
  /\ errorsDelivered = <<>>

\* getPosition(): one navigator.geolocation.getCurrentPosition request.
getPosition ==
  /\ nAcquired < MaxAcquisitions
  /\ nAcquired' = nAcquired + 1
  /\ acquiring' = acquiring \cup {[id |-> nAcquired + 1, startedAt |-> stops]}

\* cleanup(): clearTimeout(sampleTimer); a request in flight is not touched.
TimersAfterCleanup == {tm \in timers : tm.id # sampleTimer}

StartWatching(callback, errorCallback) ==
  LET ecbs == {errorCallback} \ {NoCallback} IN
  IF ~isSupported
    THEN /\ errorsDelivered' =
              Append(errorsDelivered,
                     [to |-> ecbs \cup errorCallbacks, code |-> "NOT_SUPPORTED",
                      acq |-> 0])
         /\ UNCHANGED <<isWatching, callbacks, errorCallbacks, config, sampleTimer,
                        timers, acquiring, lastPosition, isMoving, nAcquired, stops,
                        delivered>>
    ELSE IF isWatching
      THEN UNCHANGED samplerVars
      ELSE /\ callbacks' = callbacks \cup {callback}
           /\ errorCallbacks' = errorCallbacks \cup ecbs
           /\ isWatching' = TRUE
           /\ getPosition
           /\ UNCHANGED <<config, sampleTimer, timers, lastPosition, isMoving, stops,
                          delivered, errorsDelivered>>

\* stopWatching(callback), or stopWatching() when callback is NoCallback.
StopWatching(callback) ==
  LET left == IF callback # NoCallback THEN callbacks \ {callback} ELSE {} IN
  /\ stops < MaxStops
  /\ callbacks' = left
  /\ IF left = {}
       THEN /\ isWatching' = FALSE
            /\ timers' = TimersAfterCleanup
            /\ sampleTimer' = 0
            /\ stops' = stops + 1
       ELSE UNCHANGED <<isWatching, timers, sampleTimer, stops>>
  /\ UNCHANGED <<errorCallbacks, config, acquiring, lastPosition, isMoving, nAcquired,
                 delivered, errorsDelivered>>

\* updateConfig(config): merges the configuration and, while watching,
\* restarts sampling with cleanup() and a new first request.
ConfigPatches == {DEFAULT_CONFIG, [DEFAULT_CONFIG EXCEPT !.movingSampleInterval = 1000]}

UpdateConfig(patch) ==
  /\ config' = patch
  /\ IF isWatching
       THEN /\ timers' = TimersAfterCleanup
            /\ sampleTimer' = 0
            /\ getPosition
       ELSE UNCHANGED <<timers, sampleTimer, acquiring, nAcquired>>
  /\ UNCHANGED <<isWatching, callbacks, errorCallbacks, lastPosition, isMoving, stops,
                 delivered, errorsDelivered>>

\* The delay with the two intervals exchanged.
nextIntervalSwapped(moving) ==
  IF moving THEN config.stationarySampleInterval ELSE config.movingSampleInterval

\* The delay of the next sample after a fix (lines 191-193).
nextInterval(moving) ==
  IF moving THEN config.movingSampleInterval ELSE config.stationarySampleInterval

\* Which callbacks notifyCallbacks calls (lines 308-316).
Notified == callbacks

\* The success callback of getCurrentPosition (lines 183-197).
AcquireSuccess(a, position) ==
  LET moving == updateMotionState(position) IN
  /\ a \in acquiring
  /\ acquiring' = acquiring \ {a}
  /\ isMoving' = moving
  /\ lastPosition' = position
  /\ delivered' = Append(delivered, [to |-> Notified, acq |-> a.id,
                                     startedAt |-> a.startedAt, stops |-> stops])
  /\ IF isWatching
       THEN /\ timers' = timers \cup {[id |-> a.id, delay |-> nextInterval(moving)]}
            /\ sampleTimer' = a.id
       ELSE UNCHANGED <<timers, sampleTimer>>
  /\ UNCHANGED <<isWatching, callbacks, errorCallbacks, config, nAcquired, stops,
                 errorsDelivered>>

\* The error callback of getCurrentPosition (lines 198-206).
AcquireError(a, code) ==
  /\ a \in acquiring
  /\ acquiring' = acquiring \ {a}
  /\ errorsDelivered' = Append(errorsDelivered,
                               [to |-> errorCallbacks, code |-> code, acq |-> a.id])
  /\ IF isWatching
       THEN /\ timers' = timers \cup {[id |-> a.id, delay |-> RetryDelay]}
            /\ sampleTimer' = a.id
       ELSE UNCHANGED <<timers, sampleTimer>>
  /\ UNCHANGED <<isWatching, callbacks, errorCallbacks, config, lastPosition, isMoving,
                 nAcquired, stops, delivered>>

\* A pending timer fires: setTimeout's getPosition runs.
TimerFires(tm) ==
  /\ tm \in timers
  /\ timers' = timers \ {tm}
  /\ getPosition
  /\ UNCHANGED <<isWatching, callbacks, errorCallbacks, config, sampleTimer,
                 lastPosition, isMoving, stops, delivered, errorsDelivered>>

(***************************************************************************)
(* Member markers of the live map: frontend/src/components/map/MapView.tsx *)
(***************************************************************************)
STALE_LOCATION_THRESHOLD == 30000
StaleCheckPeriod == 5000
MapMembers == {"m1", "m2"}
NoTimestamp == 0 - 1
NoAge == 0 - 1000000

\* A test that takes the threshold itself for stale.
isStaleAtThreshold(locationAge) == locationAge >= STALE_LOCATION_THRESHOLD

\* locationAge > STALE_LOCATION_THRESHOLD (182, 298)
isStale(locationAge) == locationAge > STALE_LOCATION_THRESHOLD

InitMap ==
  /\ mapNow = 0
  /\ mapTicks = 0
  /\ memberTimestamp = [m \in MapMembers |-> NoTimestamp]
  /\ markerStale = [m \in MapMembers |-> "none"]
  /\ checkedAge = [m \in MapMembers |-> NoAge]
  /\ nextStaleCheck = StaleCheckPeriod

\* Time passes in the browser.
MapTick(dt) ==
  /\ mapTicks < MaxMapTicks
  /\ mapTicks' = mapTicks + 1
  /\ mapNow' = mapNow + dt
  /\ UNCHANGED <<memberTimestamp, markerStale, checkedAge, nextStaleCheck>>

\* The check at the end of updateMemberMarker (178-186) and in the interval
\* (294-302): the marker of a located member is marked or unmarked.
Checked(stamps, m) ==
  IF isStale(mapNow - stamps[m]) THEN "stale" ELSE "fresh"

\* currentParty changes: member m has a location with this timestamp. The
\* marker effect (203-220) runs updateMemberMarker for every member, which
\* returns at once for a member without location (110), and the interval
\* effect (288-312) sets its interval anew.
PartyMemberLocated(m, timestamp) ==
  /\ timestamp # memberTimestamp[m]
  /\ memberTimestamp' = [memberTimestamp EXCEPT ![m] = timestamp]
  /\ markerStale' = [x \in MapMembers |->
       IF memberTimestamp'[x] = NoTimestamp THEN markerStale[x]
       ELSE Checked(memberTimestamp', x)]
  /\ checkedAge' = [x \in MapMembers |->
       IF memberTimestamp'[x] = NoTimestamp THEN checkedAge[x]
       ELSE mapNow - memberTimestamp'[x]]
  /\ nextStaleCheck' = mapNow + StaleCheckPeriod
  /\ UNCHANGED <<mapNow, mapTicks>>

\* The interval's callback (289-305), on time or late: every member with a
\* location and a marker is checked again.
StaleCheckFires ==
  /\ mapNow >= nextStaleCheck
  /\ nextStaleCheck' = mapNow + StaleCheckPeriod
  /\ markerStale' = [x \in MapMembers |->
       IF memberTimestamp[x] = NoTimestamp \/ markerStale[x] = "none" THEN markerStale[x]
       ELSE Checked(memberTimestamp, x)]
  /\ checkedAge' = [x \in MapMembers |->
       IF memberTimestamp[x] = NoTimestamp \/ markerStale[x] = "none" THEN checkedAge[x]
       ELSE mapNow - memberTimestamp[x]]
  /\ UNCHANGED <<mapNow, mapTicks, memberTimestamp>>

\* Clock steps that bring an age to the threshold, and just past it.
MapSteps == {1, StaleCheckPeriod, STALE_LOCATION_THRESHOLD - StaleCheckPeriod}

NextMap ==
  \/ \E dt \in MapSteps : MapTick(dt) /\ MapOnly
  \/ \E m \in MapMembers, timestamp \in {0, mapNow} :
       PartyMemberLocated(m, timestamp) /\ MapOnly
  \/ StaleCheckFires /\ MapOnly

(***************************************************************************)
(* The party client: frontend/src/contexts/PartyContext.tsx. The socket is *)
(* connected throughout (socketRef.current?.connected) and the page stays  *)
(* mounted. An effect runs in the step that changes its dependencies.      *)
(***************************************************************************)
ThrottleDelay == 1000
ShareCallback == "cb1"
ShareErrorCallback == "ecb1"
ShareFix == Position(52000000, 4000000, 10, T0)

InitClient ==
  /\ currentParty = NoParty
  /\ isLocationSharing = FALSE
  /\ throttleRef = "null"
  /\ throttleDue = 0
  /\ sharing = [p \in Parties |-> 0]
  /\ callbackParty = NoParty
  /\ detailFetches = [p \in Parties |-> 0]
  /\ clientLog = <<>>

ClientEvent(ev, p, sent) == [ev |-> ev, party |-> p, at |-> mapNow, sent |-> sent]

PartyEvents == {k \in 1..Len(clientLog) : clientLog[k].ev # "sample"}

PartyEventAllowed == Cardinality(PartyEvents) < MaxPartyEvents

\* clearTimeout(locationUpdateThrottleRef.current) in the cleanup of the
\* effect on isLocationSharing (438-440): the timer is cancelled and the ref
\* keeps its id.
Cancelled(ref) == IF ref = "null" THEN "null" ELSE "cancelled"

\* startWatching directly followed by stopWatching() on a stopped service:
\* the first acquisition is issued (216) and stays in flight.
StartedAndStopped ==
  /\ stops < MaxStops
  /\ getPosition
  /\ errorCallbacks' = errorCallbacks \cup {ShareErrorCallback}
  /\ callbacks' = {}
  /\ isWatching' = FALSE
  /\ timers' = TimersAfterCleanup
  /\ sampleTimer' = 0
  /\ stops' = stops + 1
  /\ UNCHANGED <<config, lastPosition, isMoving, delivered, errorsDelivered>>

\* The effects after setCurrentParty(p): auto-start / auto-stop of location
\* sharing (422-428) and, when isLocationSharing changes, the cleanup of
\* 433-442. startLocationSharing runs up to its await of requestPermission.
PartyEffects(p) ==
  IF p # NoParty /\ ~isLocationSharing
    THEN /\ sharing' = [sharing EXCEPT ![p] = @ + 1]
         /\ UNCHANGED <<isLocationSharing, throttleRef, callbackParty, samplerVars>>
    ELSE IF p = NoParty /\ isLocationSharing
      THEN /\ StopWatching(NoCallback)
           /\ isLocationSharing' = FALSE
           /\ throttleRef' = Cancelled(throttleRef)
           /\ callbackParty' = NoParty
           /\ UNCHANGED sharing
      ELSE UNCHANGED <<isLocationSharing, throttleRef, sharing, callbackParty, samplerVars>>

\* socket.on('party:joined') (126-131)
OnPartyJoined(p) ==
  /\ PartyEventAllowed
  /\ currentParty' = p
  /\ clientLog' = Append(clientLog, ClientEvent("party:joined", p, FALSE))
  /\ PartyEffects(p)
  /\ UNCHANGED <<throttleDue, detailFetches>>

\* socket.on('party:left') (133-137)
OnPartyLeft ==
  /\ PartyEventAllowed
  /\ currentParty' = NoParty
  /\ clientLog' = Append(clientLog, ClientEvent("party:left", currentParty, FALSE))
  /\ PartyEffects(NoParty)
  /\ UNCHANGED <<throttleDue, detailFetches>>

\* socket.on('party:member-joined') (139-153): with a current party, its
\* details are requested; the state itself is returned as it was.
OnMemberJoined ==
  /\ PartyEventAllowed
  /\ clientLog' = Append(clientLog, ClientEvent("party:member-joined", currentParty, FALSE))
  /\ detailFetches' = IF currentParty = NoParty THEN detailFetches
                      ELSE [detailFetches EXCEPT ![currentParty] = @ + 1]
  /\ UNCHANGED <<currentParty, isLocationSharing, throttleRef, throttleDue, sharing,
                 callbackParty, samplerVars>>

\* partyApi.getDetails(prev.id) resolved (145-149).
DetailsResolved(p, success) ==
  /\ detailFetches[p] > 0
  /\ detailFetches' = [detailFetches EXCEPT ![p] = @ - 1]
  /\ IF success
       THEN /\ currentParty' = p
            /\ clientLog' = Append(clientLog, ClientEvent("details", p, FALSE))
            /\ PartyEffects(p)
       ELSE UNCHANGED <<currentParty, clientLog, isLocationSharing, throttleRef, sharing,
                        callbackParty, samplerVars>>
  /\ UNCHANGED throttleDue

\* startLocationSharing after requestPermission resolved (366-401), for a
\* call that captured party q, and the effects of setIsLocationSharing(true).
ShareGranted(q) ==
  /\ sharing[q] > 0
  /\ sharing' = [sharing EXCEPT ![q] = @ - 1]
  /\ IF isLocationSharing \/ currentParty # NoParty
       THEN /\ isLocationSharing' = TRUE
            /\ StartWatching(ShareCallback, ShareErrorCallback)
            /\ callbackParty' = IF isWatching THEN callbackParty ELSE q
            /\ throttleRef' = IF isLocationSharing THEN throttleRef
                              ELSE Cancelled(throttleRef)
       ELSE /\ isLocationSharing' = FALSE
            /\ IF isWatching THEN StopWatching(NoCallback) ELSE StartedAndStopped
            /\ callbackParty' = NoParty
            /\ throttleRef' = Cancelled(throttleRef)
  /\ UNCHANGED <<currentParty, throttleDue, detailFetches, clientLog>>

\* A position acquired by the service; the sample callback (372-395) when it
\* is registered.
OnSample(a, position) ==
  /\ AcquireSuccess(a, position)
  /\ IF ShareCallback \in Notified
       THEN IF throttleRef = "null" /\ callbackParty # NoParty
         THEN /\ throttleRef' = "pending"
              /\ throttleDue' = mapNow + ThrottleDelay
              /\ clientLog' = Append(clientLog, ClientEvent("sample", callbackParty, TRUE))
         ELSE /\ clientLog' = Append(clientLog, ClientEvent("sample", callbackParty, FALSE))
              /\ UNCHANGED <<throttleRef, throttleDue>>
       ELSE UNCHANGED <<throttleRef, throttleDue, clientLog>>
  /\ UNCHANGED <<currentParty, isLocationSharing, sharing, callbackParty, detailFetches>>

\* The sampler's timer fires: the next acquisition starts.
SampleTimerFires(tm) == TimerFires(tm) /\ UNCHANGED clientVars

\* The throttle timer fires (377-379).
ThrottleFires ==
  /\ throttleRef = "pending"
  /\ mapNow >= throttleDue
  /\ throttleRef' = "null"
  /\ UNCHANGED <<currentParty, isLocationSharing, throttleDue, sharing, callbackParty,
                 detailFetches, clientLog, samplerVars>>

\* Time passes; a pending throttle timer fires when it is due.
ClientTick(dt) ==
  /\ throttleRef = "pending" => mapNow + dt <= throttleDue
  /\ MapTick(dt)
  /\ UNCHANGED <<gwVars, samplerVars, navVars, clientVars>>

(***************************************************************************)
(* Party navigation state: app/lib/services/hazardService.ts (navigation   *)
(* functions) and app/app/map/page.tsx. Two devices show the map page: the *)
(* party's creator and another member of the same party.                   *)
(***************************************************************************)
\* The creator has the page on two devices.
Devices == {"lead", "lead2", "memb"}
PartyDevices == {"lead", "memb"}
LeaderDevices == {"lead", "lead2"}
DeviceUser(d) == IF d \in LeaderDevices THEN "u1" ELSE "u2"
NavParty == 1
\* parties.created_by of the party, and party_members' party of a user
PartyCreatedBy == "u1"
MembershipOf(u) == IF u \in {"u1", "u2"} THEN NavParty ELSE NoParty

Routes == {"r1", "r2"}
NoRoute == "none"
NoError == ""

\* A route the directions service returns without steps.
EmptyRoute == "r0"

\* Coordinates are [lng, lat] pairs in tenths of a degree.
NoLocation == <<>>
HomeLocation == <<0, 9>>

\* NavigationStep: maneuverLocation, distance and duration.
Step(at, dist, dur) == [maneuverLocation |-> at, distance |-> dist, duration |-> dur]
NoStep == Step(NoLocation, 0, 0)

\* The steps, distance_meters and duration_seconds of each route: the
\* maneuvers of r1 lie on one meridian, ten units apart; those of r2 are as
\* far from <<0, 9>> as each other.
Steps(r) ==
  CASE r = "r1" -> <<Step(<<0, 0>>, 100, 10), Step(<<0, 10>>, 200, 20),
                     Step(<<0, 20>>, 300, 30)>>
    [] r = "r2" -> <<Step(<<0, 0>>, 50, 5), Step(<<0, 18>>, 70, 7)>>
    [] OTHER -> <<>>

distance_meters(r) ==
  CASE r = "r1" -> 600
    [] r = "r2" -> 120
    [] OTHER -> 40

duration_seconds(r) ==
  CASE r = "r1" -> 60
    [] r = "r2" -> 12
    [] OTHER -> 4

NoAddress == ""
\* payload.destinationAddress: r1 leads to a place with an address.
destinationAddress(r) == IF r = "r1" THEN "a1" ELSE NoAddress

\* The route stands for the destination name and coordinates, the geometry,
\* the totals and the steps of a payload.
NavState(p, u, r, a, v) ==
  [party_id |-> p, created_by |-> u, route |-> r,
   destination_address |-> destinationAddress(r), is_active |-> a, updated_at |-> v]

NoNav == NavState(NoParty, NoUser, NoRoute, FALSE, 0)
NoRow == NavState(NoParty, NoUser, NoRoute, FALSE, 0)

mapToNavigationState(row) ==
  [party_id |-> row.party_id, created_by |-> row.created_by, route |-> row.route,
   destination_address |-> row.destination_address, is_active |-> row.is_active,
   updated_at |-> row.updated_at]

\* buildLocalNavigationState: party_id null; created_at and updated_at are
\* the device's wall clock, which is no database stamp (0 here).
buildLocalNavigationState(u, payload) == NavState(NoParty, u, payload, TRUE, 0)

\* The update stamp the database gives a written row.
NextStamp == navClock + 1

\* The rows of a party, and the row a read of the party gives.
RowsOf(p) == {x \in navRows : x.party_id = p}
navRow == IF RowsOf(NavParty) = {} THEN NoRow ELSE CHOOSE x \in RowsOf(NavParty) : TRUE

\* An upsert that writes no address column for a payload without address:
\* the column keeps what the party's row had.
upsertOmitsNullAddress(rows, row) ==
  {x \in rows : x.party_id # row.party_id} \cup
    {IF row.destination_address = NoAddress /\ \E x \in rows : x.party_id = row.party_id
       THEN [row EXCEPT !.destination_address =
               (CHOOSE x \in rows : x.party_id = row.party_id).destination_address]
       ELSE row}

\* upsert(..., {onConflict: 'party_id'}) (469-486): the row of the party is
\* replaced by the written row, every column of which comes from the call.
upsert(rows, row) == {x \in rows : x.party_id # row.party_id} \cup {row}

canSelectDestination(d) == userPartyId[d] = NoParty \/ isPartyLeader[d]
canManageNavigation(d) == userPartyId[d] = NoParty \/ isPartyLeader[d]
navigationActive(d) == navigationState[d] # NoNav /\ navigationState[d].is_active
\* The test before saveNavigationState and clearNavigationState
\* (page.tsx 524, 861, 892).
WritesParty(d) == userPartyId[d] # NoParty /\ isPartyLeader[d]

\* A null remainingDistance / remainingDuration.
Null == 0 - 1
\* Number.POSITIVE_INFINITY: above every distance of the model.
POSITIVE_INFINITY == 1000000

\* STEP 8 (page.tsx 421-455). The distance of the position to a step's
\* maneuver: the code compares the square roots of these sums, which are in
\* the same order as the sums.
StepDistance(loc, step) ==
  (loc[2] - step.maneuverLocation[2]) * (loc[2] - step.maneuverLocation[2])
    + (loc[1] - step.maneuverLocation[1]) * (loc[1] - step.maneuverLocation[1])

\* The forEach of 433-443 from step i on (the index it reports counts from 0).
RECURSIVE ClosestFrom(_, _, _, _, _)
ClosestFrom(steps, loc, i, closestIdx, closestDistance) ==
  IF i > Len(steps) THEN closestIdx
  ELSE IF StepDistance(loc, steps[i]) < closestDistance
    THEN ClosestFrom(steps, loc, i + 1, i - 1, StepDistance(loc, steps[i]))
    ELSE ClosestFrom(steps, loc, i + 1, closestIdx, closestDistance)

RECURSIVE ClosestFromLast(_, _, _, _, _)
ClosestFromLast(steps, loc, i, closestIdx, closestDistance) ==
  IF i > Len(steps) THEN closestIdx
  ELSE IF StepDistance(loc, steps[i]) <= closestDistance
    THEN ClosestFromLast(steps, loc, i + 1, i - 1, StepDistance(loc, steps[i]))
    ELSE ClosestFromLast(steps, loc, i + 1, closestIdx, closestDistance)

\* A forEach that lets a later step of the same distance win.
closestIndexLastOnTie(steps, loc) == ClosestFromLast(steps, loc, 1, 0, POSITIVE_INFINITY)

closestIndex(steps, loc) == ClosestFrom(steps, loc, 1, 0, POSITIVE_INFINITY)

\* steps.slice(closestIndex)
slice(steps, start) == SubSeq(steps, start + 1, Len(steps))

\* The two reduce calls of 448-449.
RECURSIVE SumDistance(_)
SumDistance(steps) ==
  IF steps = <<>> THEN 0 ELSE Head(steps).distance + SumDistance(Tail(steps))

RECURSIVE SumDuration(_)
SumDuration(steps) ==
  IF steps = <<>> THEN 0 ELSE Head(steps).duration + SumDuration(Tail(steps))

\* A slice that drops the closest step.
remainingStepsAfterClosest(state, loc) ==
  slice(Steps(state.route), closestIndex(Steps(state.route), loc) + 1)

remainingSteps(state, loc) ==
  slice(Steps(state.route), closestIndex(Steps(state.route), loc))

\* What the effect sets for a navigationState and a currentLocation.
Progress(state, loc) ==
  IF state = NoNav \/ loc = NoLocation \/ Len(Steps(state.route)) = 0
    THEN [activeStep |-> NoStep,
          remainingDistance |-> IF state # NoNav THEN distance_meters(state.route)
                                ELSE Null,
          remainingDuration |-> IF state # NoNav THEN duration_seconds(state.route)
                                ELSE Null]
    ELSE LET rest == remainingSteps(state, loc)
         IN [activeStep |-> IF rest = <<>> THEN NoStep ELSE Head(rest),
             remainingDistance |-> SumDistance(rest),
             remainingDuration |-> SumDuration(rest)]

\* An effect that leaves the remaining values alone when there is no state.
ProgressEffectKeepsLeftOver ==
  LET progress == [d \in Devices |->
        IF navigationState'[d] = navigationState[d]
             /\ currentLocation'[d] = currentLocation[d]
          THEN [activeStep |-> activeStep[d],
                remainingDistance |-> remainingDistance[d],
                remainingDuration |-> remainingDuration[d]]
          ELSE Progress(navigationState'[d], currentLocation'[d])]
  IN /\ activeStep' = [d \in Devices |-> progress[d].activeStep]
     /\ remainingDistance' = [d \in Devices |->
          IF navigationState'[d] = NoNav THEN remainingDistance[d]
          ELSE progress[d].remainingDistance]
     /\ remainingDuration' = [d \in Devices |->
          IF navigationState'[d] = NoNav THEN remainingDuration[d]
          ELSE progress[d].remainingDuration]

\* React runs the effect after every commit that changed navigationState or
\* currentLocation (its dependencies, 455), before the page handles another
\* event.
ProgressEffect ==
  LET progress == [d \in Devices |->
        IF navigationState'[d] = navigationState[d]
             /\ currentLocation'[d] = currentLocation[d]
          THEN [activeStep |-> activeStep[d],
                remainingDistance |-> remainingDistance[d],
                remainingDuration |-> remainingDuration[d]]
          ELSE Progress(navigationState'[d], currentLocation'[d])]
  IN /\ activeStep' = [d \in Devices |-> progress[d].activeStep]
     /\ remainingDistance' = [d \in Devices |-> progress[d].remainingDistance]
     /\ remainingDuration' = [d \in Devices |-> progress[d].remainingDuration]

\* STEP 9 (457-462): a state of a party on a page without a party is dropped.
ClearIfUserLeavesParty(d, state) ==
  IF userPartyId[d] = NoParty /\ state.party_id # NoParty THEN NoNav ELSE state

\* A step of the map page: its effects run with it, and the page writes no
\* membership.
NavStep == NavOnly /\ ProgressEffect /\ UNCHANGED partyMembers

InitNav ==
  /\ navRows = {}
  /\ navClock = 0
  /\ loading = [d \in Devices |-> TRUE]
  /\ pageUserId = [d \in Devices |-> NoUser]
  /\ userPartyId = [d \in Devices |-> NoParty]
  /\ isPartyLeader = [d \in Devices |-> FALSE]
  /\ currentLocation = [d \in Devices |-> NoLocation]
  /\ navigationState = [d \in Devices |-> NoNav]
  /\ previewRoute = [d \in Devices |-> NoRoute]
  /\ navigationError = [d \in Devices |-> NoError]
  /\ fetchPc = [d \in Devices |-> "none"]
  /\ fetched = [d \in Devices |-> NoNav]
  /\ channel = [d \in Devices |-> <<>>]
  /\ navTasks = {}
  /\ navRequests = 0
  /\ navLog = <<>>
  /\ navApplied = [d \in Devices |-> <<>>]
  /\ activeStep = [d \in Devices |-> NoStep]
  /\ remainingDistance = [d \in Devices |-> Null]
  /\ remainingDuration = [d \in Devices |-> Null]
  /\ partyMembers = [u \in {DeviceUser(d) : d \in Devices} |-> MembershipOf(u)]

\* initialize() up to the membership (page.tsx 122-162); with userId and
\* userPartyId set the STEP 6 effect runs (348-379): it calls the fetch and
\* subscribes to the party's row.
NavInitialize(d) ==
  /\ pageUserId[d] = NoUser
  /\ pageUserId' = [pageUserId EXCEPT ![d] = DeviceUser(d)]
  /\ userPartyId' = [userPartyId EXCEPT ![d] = partyMembers[DeviceUser(d)]]
  /\ isPartyLeader' = [isPartyLeader EXCEPT ![d] = (PartyCreatedBy = DeviceUser(d))]
  /\ fetchPc' = [fetchPc EXCEPT ![d] =
                   IF partyMembers[DeviceUser(d)] # NoParty THEN "called" ELSE "none"]
  /\ UNCHANGED <<navRows, navClock, loading, currentLocation, navigationState,
                 previewRoute, navigationError, fetched, channel, navTasks,
                 navRequests, navLog, navApplied>>

Subscribed(d) == userPartyId[d] # NoParty

\* initialize(), the rest (164-190): getCurrentPosition gives a position or
\* fails (NoLocation), and a failure sets nothing.
NavInitDone(d, position) ==
  /\ pageUserId[d] # NoUser /\ loading[d]
  /\ loading' = [loading EXCEPT ![d] = FALSE]
  /\ currentLocation' = [currentLocation EXCEPT ![d] =
                           IF position = NoLocation THEN currentLocation[d]
                           ELSE position]
  /\ UNCHANGED <<navRows, navClock, pageUserId, userPartyId, isPartyLeader,
                 navigationState, previewRoute, navigationError, fetchPc, fetched,
                 channel, navTasks, navRequests, navLog, navApplied>>

\* STEP 2: handleLocationUpdate sets currentLocation (207-211).
NavLocationUpdate(d, loc) ==
  /\ loc # currentLocation[d]
  /\ currentLocation' = [currentLocation EXCEPT ![d] = loc]
  /\ UNCHANGED <<navRows, navClock, loading, pageUserId, userPartyId, isPartyLeader,
                 navigationState, previewRoute, navigationError, fetchPc, fetched,
                 channel, navTasks, navRequests, navLog, navApplied>>

\* fetchActiveNavigationState: the query runs in the database (515-520).
NavFetchRead(d) ==
  /\ fetchPc[d] = "called"
  /\ fetchPc' = [fetchPc EXCEPT ![d] = "read"]
  /\ fetched' = [fetched EXCEPT ![d] =
                   IF navRow # NoRow /\ navRow.is_active
                     THEN mapToNavigationState(navRow) ELSE NoNav]
  /\ UNCHANGED <<navRows, navClock, pageVars, channel, navTasks, navRequests, navLog,
                 navApplied>>

Applied(d, state) ==
  IF state = NoNav THEN navApplied[d] ELSE Append(navApplied[d], state.updated_at)

\* The fetch's .then (356-360); the effect is still active.
NavFetchResolved(d) ==
  /\ fetchPc[d] = "read"
  /\ fetchPc' = [fetchPc EXCEPT ![d] = "done"]
  /\ navigationState' = [navigationState EXCEPT ![d] =
                          ClearIfUserLeavesParty(d, fetched[d])]
  /\ navApplied' = [navApplied EXCEPT ![d] = Applied(d, fetched[d])]
  /\ UNCHANGED <<navRows, navClock, loading, pageUserId, userPartyId, isPartyLeader,
                 currentLocation, previewRoute, navigationError, fetched, channel,
                 navTasks, navRequests, navLog>>

\* The postgres_changes callback (hazardService.ts 544-557, page.tsx 368-370).
NavRealtimeDelivered(d) ==
  /\ channel[d] # <<>>
  /\ LET next == Head(channel[d])
         state == IF ~next.is_active THEN NoNav ELSE mapToNavigationState(next)
     IN /\ navigationState' = [navigationState EXCEPT ![d] =
                                 ClearIfUserLeavesParty(d, state)]
        /\ navApplied' = [navApplied EXCEPT ![d] = Append(navApplied[d], next.updated_at)]
  /\ channel' = [channel EXCEPT ![d] = Tail(channel[d])]
  /\ UNCHANGED <<navRows, navClock, loading, pageUserId, userPartyId, isPartyLeader,
                 currentLocation, previewRoute, navigationError, fetchPc, fetched,
                 navTasks, navRequests, navLog>>

\* A write to the row reaches every subscribed device as a realtime event.
Published(row) ==
  [d \in Devices |-> IF Subscribed(d) THEN Append(channel[d], row) ELSE channel[d]]

NavTask(d, kind, pc, r) == [dev |-> d, kind |-> kind, pc |-> pc, route |-> r, stamp |-> 0]

Logged(d, op, outcome) == Append(navLog, [dev |-> d, op |-> op, outcome |-> outcome])

\* A tap on the loaded page.
NavRequest(d) ==
  /\ ~loading[d]
  /\ navRequests < MaxNavRequests
  /\ navRequests' = navRequests + 1

\* handleNavigationFromSuggestion (465-514), up to await getDrivingRoute.
HandleNavigationFromSuggestion(d, r) ==
  /\ NavRequest(d)
  /\ IF ~canSelectDestination(d)
       THEN /\ navigationError' = [navigationError EXCEPT ![d] =
                 "Only the party leader can set the party destination."]
            /\ navLog' = Logged(d, "select", "refused")
            /\ UNCHANGED navTasks
       ELSE IF currentLocation[d] = NoLocation
         THEN /\ navigationError' = [navigationError EXCEPT ![d] =
                   "Waiting for your current location..."]
              /\ navLog' = Logged(d, "select", "waiting")
              /\ UNCHANGED navTasks
         ELSE /\ navigationError' = [navigationError EXCEPT ![d] = NoError]
              /\ navTasks' = navTasks \cup {NavTask(d, "select", "route", r)}
              /\ UNCHANGED navLog
  /\ UNCHANGED <<navRows, navClock, loading, pageUserId, userPartyId, isPartyLeader,
                 currentLocation, navigationState, previewRoute, fetchPc, fetched,
                 channel, navApplied>>

\* ... after await getDrivingRoute (496-511).
NavPreviewRouted(t, ok) ==
  /\ t \in navTasks /\ t.kind = "select" /\ t.pc = "route"
  /\ navTasks' = navTasks \ {t}
  /\ IF ok
       THEN /\ previewRoute' = [previewRoute EXCEPT ![t.dev] = t.route]
            /\ navLog' = Logged(t.dev, "select", "preview")
            /\ UNCHANGED navigationError
       ELSE /\ navigationError' = [navigationError EXCEPT ![t.dev] =
                 "Failed to calculate route"]
            /\ navLog' = Logged(t.dev, "select", "error")
            /\ UNCHANGED previewRoute
  /\ UNCHANGED <<navRows, navClock, loading, pageUserId, userPartyId, isPartyLeader,
                 currentLocation, navigationState, fetchPc, fetched, channel,
                 navRequests, navApplied>>

\* handleStartNavigation (517-544), up to await saveNavigationState.
HandleStartNavigation(d) ==
  /\ NavRequest(d)
  /\ previewRoute[d] # NoRoute
  /\ IF WritesParty(d)
       THEN /\ navTasks' = navTasks \cup {NavTask(d, "start", "save", previewRoute[d])}
            /\ UNCHANGED <<navigationState, previewRoute, navLog>>
       ELSE /\ navigationState' = [navigationState EXCEPT ![d] =
                 buildLocalNavigationState(pageUserId[d], previewRoute[d])]
            /\ previewRoute' = [previewRoute EXCEPT ![d] = NoRoute]
            /\ navLog' = Logged(d, "start", "local")
            /\ UNCHANGED navTasks
  /\ UNCHANGED <<navRows, navClock, loading, pageUserId, userPartyId, isPartyLeader,
                 currentLocation, navigationError, fetchPc, fetched, channel,
                 navApplied>>

\* saveNavigationState: the upsert runs in the database (469-488), or fails.
NavSaved(t, ok) ==
  /\ t \in navTasks /\ t.pc = "save"
  /\ IF ok
       THEN LET row == NavState(userPartyId[t.dev], pageUserId[t.dev], t.route, TRUE,
                                NextStamp)
            IN /\ navRows' = upsert(navRows, row)
               /\ navClock' = NextStamp
               /\ channel' = Published(row)
               /\ navTasks' = (navTasks \ {t}) \cup
                                {[t EXCEPT !.pc = "saved", !.stamp = NextStamp]}
       ELSE /\ navTasks' = (navTasks \ {t}) \cup {[t EXCEPT !.pc = "failed"]}
            /\ UNCHANGED <<navRows, navClock, channel>>
  /\ UNCHANGED <<pageVars, fetchPc, fetched, navRequests, navLog, navApplied>>

\* ... after await saveNavigationState (page.tsx 532-541 and 897-900).
NavSaveResolved(t) ==
  /\ t \in navTasks /\ t.kind \in {"start", "reroute"} /\ t.pc \in {"saved", "failed"}
  /\ navTasks' = navTasks \ {t}
  /\ IF t.pc = "saved"
       THEN /\ navigationState' = [navigationState EXCEPT ![t.dev] =
                 ClearIfUserLeavesParty(t.dev,
                   mapToNavigationState(NavState(userPartyId[t.dev], pageUserId[t.dev],
                                                 t.route, TRUE, t.stamp)))]
            /\ previewRoute' = [previewRoute EXCEPT ![t.dev] =
                 IF t.kind = "start" THEN NoRoute ELSE previewRoute[t.dev]]
            /\ navLog' = Logged(t.dev, t.kind, "persisted")
            /\ UNCHANGED navigationError
       ELSE /\ navigationError' = [navigationError EXCEPT ![t.dev] =
                 IF t.kind = "start" THEN "Failed to start navigation"
                 ELSE navigationError[t.dev]]
            /\ navLog' = Logged(t.dev, t.kind, "error")
            /\ UNCHANGED <<navigationState, previewRoute>>
  /\ UNCHANGED <<navRows, navClock, loading, pageUserId, userPartyId, isPartyLeader,
                 currentLocation, fetchPc, fetched, channel, navRequests, navApplied>>

\* handleClearNavigation (547-574), up to await clearNavigationState.
HandleClearNavigation(d) ==
  /\ NavRequest(d)
  /\ IF ~navigationActive(d)
       THEN /\ navigationState' = [navigationState EXCEPT ![d] = NoNav]
            /\ navLog' = Logged(d, "clear", "ignored")
            /\ UNCHANGED <<navigationError, navTasks>>
       ELSE IF ~canManageNavigation(d)
         THEN /\ navLog' = Logged(d, "clear", "ignored")
              /\ UNCHANGED <<navigationState, navigationError, navTasks>>
         ELSE /\ navigationError' = [navigationError EXCEPT ![d] = NoError]
              /\ IF userPartyId[d] # NoParty
                   THEN /\ navTasks' = navTasks \cup {NavTask(d, "clear", "clear", NoRoute)}
                        /\ UNCHANGED <<navigationState, navLog>>
                   ELSE /\ navigationState' = [navigationState EXCEPT ![d] = NoNav]
                        /\ navLog' = Logged(d, "clear", "local")
                        /\ UNCHANGED navTasks
  /\ UNCHANGED <<navRows, navClock, loading, pageUserId, userPartyId, isPartyLeader,
                 currentLocation, previewRoute, fetchPc, fetched, channel, navApplied>>

\* onStopNavigation (860-867), up to await clearNavigationState.
OnStopNavigation(d) ==
  /\ NavRequest(d)
  /\ IF WritesParty(d)
       THEN /\ navTasks' = navTasks \cup {NavTask(d, "stop", "clear", NoRoute)}
            /\ UNCHANGED <<navigationState, navLog>>
       ELSE /\ navigationState' = [navigationState EXCEPT ![d] = NoNav]
            /\ navLog' = Logged(d, "stop",
                                IF navigationState[d] = NoNav THEN "ignored" ELSE "local")
            /\ UNCHANGED navTasks
  /\ UNCHANGED <<navRows, navClock, loading, pageUserId, userPartyId, isPartyLeader,
                 currentLocation, previewRoute, navigationError, fetchPc, fetched,
                 channel, navApplied>>

\* clearNavigationState: the update runs in the database (501-504), or fails.
\* It touches (and publishes) the party's row only if there is one.
NavCleared(t, ok) ==
  /\ t \in navTasks /\ t.pc = "clear"
  /\ IF ok
       THEN /\ navTasks' = (navTasks \ {t}) \cup {[t EXCEPT !.pc = "cleared"]}
            /\ IF navRow # NoRow
                 THEN LET row == [navRow EXCEPT !.is_active = FALSE,
                                                !.updated_at = NextStamp]
                      IN /\ navRows' = (navRows \ RowsOf(NavParty)) \cup {row}
                         /\ navClock' = NextStamp
                         /\ channel' = Published(row)
                 ELSE UNCHANGED <<navRows, navClock, channel>>
       ELSE /\ navTasks' = (navTasks \ {t}) \cup {[t EXCEPT !.pc = "failed"]}
            /\ UNCHANGED <<navRows, navClock, channel>>
  /\ UNCHANGED <<pageVars, fetchPc, fetched, navRequests, navLog, navApplied>>

\* ... after await clearNavigationState (564-573 and 864-866).
NavClearResolved(t) ==
  /\ t \in navTasks /\ t.kind \in {"clear", "stop"} /\ t.pc \in {"cleared", "failed"}
  /\ navTasks' = navTasks \ {t}
  /\ IF t.pc = "cleared"
       THEN /\ navigationState' = [navigationState EXCEPT ![t.dev] = NoNav]
            /\ navLog' = Logged(t.dev, t.kind, "persisted")
            /\ UNCHANGED navigationError
       ELSE /\ navigationError' = [navigationError EXCEPT ![t.dev] =
                 IF t.kind = "clear"
                   THEN "Unable to end navigation right now. Please try again."
                   ELSE navigationError[t.dev]]
            /\ navLog' = Logged(t.dev, t.kind, "error")
            /\ UNCHANGED navigationState
  /\ UNCHANGED <<navRows, navClock, loading, pageUserId, userPartyId, isPartyLeader,
                 currentLocation, previewRoute, fetchPc, fetched, channel, navRequests,
                 navApplied>>

\* onChangeRoute (878-901), up to await getDrivingRoute; r is the route the
\* directions service will compute.
OnChangeRoute(d, r) ==
  /\ NavRequest(d)
  /\ navigationState[d] # NoNav /\ currentLocation[d] # NoLocation
  /\ navTasks' = navTasks \cup {NavTask(d, "reroute", "route", r)}
  /\ UNCHANGED <<navRows, navClock, pageVars, fetchPc, fetched, channel, navLog,
                 navApplied>>

\* ... after await getDrivingRoute (891-900).
NavRerouted(t, ok) ==
  /\ t \in navTasks /\ t.kind = "reroute" /\ t.pc = "route"
  /\ IF ~ok
       THEN /\ navTasks' = navTasks \ {t}
            /\ navLog' = Logged(t.dev, "reroute", "error")
            /\ UNCHANGED navigationState
       ELSE IF WritesParty(t.dev)
         THEN /\ navTasks' = (navTasks \ {t}) \cup {[t EXCEPT !.pc = "save"]}
              /\ UNCHANGED <<navigationState, navLog>>
         ELSE /\ navTasks' = navTasks \ {t}
              /\ navigationState' = [navigationState EXCEPT ![t.dev] =
                   buildLocalNavigationState(pageUserId[t.dev], t.route)]
              /\ navLog' = Logged(t.dev, "reroute", "local")
  /\ UNCHANGED <<navRows, navClock, loading, pageUserId, userPartyId, isPartyLeader,
                 currentLocation, previewRoute, navigationError, fetchPc, fetched,
                 channel, navRequests, navApplied>>

\* The user leaves the party on the party page (party/page.tsx 115-123,
\* partyService.leaveParty): the membership is gone. No map page is told.
LeaveParty(u) ==
  /\ partyMembers[u] # NoParty
  /\ partyMembers' = [partyMembers EXCEPT ![u] = NoParty]
  /\ UNCHANGED <<navRows, navClock, pageVars, fetchPc, fetched, channel, navTasks,
                 navRequests, navLog, navApplied, progressVars>>

(***************************************************************************)
(* Connection life cycle alone: handshake, auto-join, close                *)
(***************************************************************************)
NextConn ==
  \/ \E c \in Conns, tok \in Tokens : IoUse(c, tok) /\ GatewayOnly
  \/ \E c \in Conns : OnConnection(c) /\ GatewayOnly
  \/ \E c \in Conns : ConnGotParties(c) /\ GatewayOnly
  \/ \E c \in Conns : ConnStatusDone(c) /\ GatewayOnly
  \/ \E c \in Conns : ClientClose(c) /\ GatewayOnly
  \/ \E t \in tasks : DiscGotParties(t) /\ GatewayOnly
  \/ \E t \in tasks : DiscStatusDone(t) /\ GatewayOnly

InitConn == InitGateway /\ InitSampler /\ InitMap /\ InitClient /\ InitNav

SpecConn == InitConn /\ [][NextConn]_vars

\* The event loop runs every continuation whose awaited call has resolved:
\* the steps of the connection and disconnect handlers are weakly fair. What
\* clients do (handshake, close) is not.
ConnHandlerSteps ==
  \/ \E c \in Conns : OnConnection(c) /\ GatewayOnly
  \/ \E c \in Conns : ConnGotParties(c) /\ GatewayOnly
  \/ \E c \in Conns : ConnStatusDone(c) /\ GatewayOnly
  \/ \E t \in tasks : DiscGotParties(t) /\ GatewayOnly
  \/ \E t \in tasks : DiscStatusDone(t) /\ GatewayOnly

SpecConnFair == InitConn /\ [][NextConn]_vars /\ WF_vars(ConnHandlerSteps)

(***************************************************************************)
(* Location updates: handshake, auto-join, party:update, the clock         *)
(***************************************************************************)
UpdateConns == {"c1"}

\* What a client sends: a valid sample or one with latitude 91 for its own
\* party, or a valid sample for a party it is not in.
UpdateInputs ==
  {<<1, Loc(52, 4, 3, 90, 5)>>, <<1, Loc(91, 4, Unknown, Unknown, 5)>>,
   <<2, Loc(52, 4, 3, 90, 5)>>}

NextUpdate ==
  \/ \E d \in {500} : Advance(d) /\ GatewayOnly
  \/ \E c \in UpdateConns : IoUse(c, "tok_u1") /\ GatewayOnly
  \/ \E c \in UpdateConns : OnConnection(c) /\ GatewayOnly
  \/ \E c \in UpdateConns : ConnGotParties(c) /\ GatewayOnly
  \/ \E c \in UpdateConns : ConnStatusDone(c) /\ GatewayOnly
  \/ \E c \in UpdateConns, in \in UpdateInputs : OnPartyUpdate(c, in[1], in[2]) /\ GatewayOnly
  \/ \E t \in tasks : UpdMemberChecked(t, TRUE) /\ GatewayOnly
  \/ \E t \in tasks : UpdStored(t, TRUE) /\ GatewayOnly
  \/ \E t \in tasks : UpdCacheGot(t, TRUE) /\ GatewayOnly
  \/ \E t \in tasks : UpdDbDone(t, TRUE) /\ GatewayOnly
  \/ \E t \in tasks : UpdCacheSet(t, TRUE) /\ GatewayOnly

InitUpdate ==
  /\ InitSampler /\ InitMap /\ InitClient
  /\ InitNav
  /\ InitGatewayWith({[p \in Parties |-> IF p = 1 THEN {"u1"} ELSE {}]}, {EmptyStore})

SpecUpdate == InitUpdate /\ [][NextUpdate]_vars

\* The same with samples of a member that are all valid: one with every
\* value known, one without speed and heading.
BroadcastInputs == {Loc(52, 4, 3, 90, 5), Loc(52, 4, Unknown, Unknown, 5)}

NextBroadcast ==
  \/ \E d \in {500} : Advance(d) /\ GatewayOnly
  \/ \E c \in UpdateConns : IoUse(c, "tok_u1") /\ GatewayOnly
  \/ \E c \in UpdateConns : OnConnection(c) /\ GatewayOnly
  \/ \E c \in UpdateConns : ConnGotParties(c) /\ GatewayOnly
  \/ \E c \in UpdateConns : ConnStatusDone(c) /\ GatewayOnly
  \/ \E c \in UpdateConns, loc \in BroadcastInputs : OnPartyUpdate(c, 1, loc) /\ GatewayOnly
  \/ \E t \in tasks : UpdMemberChecked(t, TRUE) /\ GatewayOnly
  \/ \E t \in tasks : UpdStored(t, TRUE) /\ GatewayOnly
  \/ \E t \in tasks : UpdCacheGot(t, TRUE) /\ GatewayOnly
  \/ \E t \in tasks : UpdDbDone(t, TRUE) /\ GatewayOnly
  \/ \E t \in tasks : UpdCacheSet(t, TRUE) /\ GatewayOnly

SpecBroadcast == InitUpdate /\ [][NextBroadcast]_vars

(***************************************************************************)
(* party:update with failing services: every await of the handler may      *)
(* reject. Time passes, in steps of the rate-limit interval, while a       *)
(* handler is suspended, and the client sends an update when the previous  *)
(* one has been dealt with.                                                *)
(***************************************************************************)
\* A party:update that arrives when no handler is suspended.
OnPartyUpdateIdle(c, p, loc) ==
  /\ tasks = {}
  /\ OnPartyUpdate(c, p, loc)

NextUpdateFail ==
  \/ \E d \in {minInterval} : tasks # {} /\ Advance(d) /\ GatewayOnly
  \/ \E c \in UpdateConns : IoUse(c, "tok_u1") /\ GatewayOnly
  \/ \E c \in UpdateConns : OnConnection(c) /\ GatewayOnly
  \/ \E c \in UpdateConns : ConnGotParties(c) /\ GatewayOnly
  \/ \E c \in UpdateConns : ConnStatusDone(c) /\ GatewayOnly
  \/ \E c \in UpdateConns, in \in UpdateInputs : OnPartyUpdateIdle(c, in[1], in[2]) /\ GatewayOnly
  \/ \E t \in tasks, ok \in BOOLEAN : UpdMemberChecked(t, ok) /\ GatewayOnly
  \/ \E t \in tasks, ok \in BOOLEAN : UpdStored(t, ok) /\ GatewayOnly
  \/ \E t \in tasks, ok \in BOOLEAN : UpdCacheGot(t, ok) /\ GatewayOnly
  \/ \E t \in tasks, ok \in BOOLEAN : UpdDbDone(t, ok) /\ GatewayOnly
  \/ \E t \in tasks, ok \in BOOLEAN : UpdCacheSet(t, ok) /\ GatewayOnly

InitUpdateFail ==
  /\ InitSampler /\ InitMap /\ InitClient
  /\ InitNav
  /\ InitGatewayWith({[p \in Parties |-> IF p = 1 THEN {"u1"} ELSE {}]}, {EmptyStore})

SpecUpdateFail == InitUpdateFail /\ [][NextUpdateFail]_vars

(***************************************************************************)
(* Two connections of the same user (two tabs or devices with the token of *)
(* u1), both sending valid updates for party 1; no await rejects.          *)
(***************************************************************************)
NextSameUser ==
  \/ \E d \in {500} : Advance(d) /\ GatewayOnly
  \/ \E c \in Conns : IoUse(c, "tok_u1") /\ GatewayOnly
  \/ \E c \in Conns : OnConnection(c) /\ GatewayOnly
  \/ \E c \in Conns : ConnGotParties(c) /\ GatewayOnly
  \/ \E c \in Conns : ConnStatusDone(c) /\ GatewayOnly
  \/ \E c \in Conns : OnPartyUpdate(c, 1, Loc(52, 4, 3, 90, 5)) /\ GatewayOnly
  \/ \E t \in tasks : UpdMemberChecked(t, TRUE) /\ GatewayOnly
  \/ \E t \in tasks : UpdStored(t, TRUE) /\ GatewayOnly
  \/ \E t \in tasks : UpdCacheGot(t, TRUE) /\ GatewayOnly
  \/ \E t \in tasks : UpdDbDone(t, TRUE) /\ GatewayOnly
  \/ \E t \in tasks : UpdCacheSet(t, TRUE) /\ GatewayOnly

InitSameUser ==
  /\ InitSampler /\ InitMap /\ InitClient
  /\ InitNav
  /\ InitGatewayWith({[p \in Parties |-> IF p = 1 THEN {"u1"} ELSE {}]}, {EmptyStore})

SpecSameUser == InitSameUser /\ [][NextSameUser]_vars

(***************************************************************************)
(* Leaving: u1 on c1 and u2 on c2 are members of party 1; both send valid  *)
(* updates, c1 sends party:leave (and the client's REST call goes with     *)
(* it). The clock stands still and each connection sends one update.       *)
(***************************************************************************)
\* The first party:update a connection sends.
OnFirstPartyUpdate(c, p, loc) ==
  /\ \A j \in 1..Len(updates) : updates[j].conn # c
  /\ OnPartyUpdate(c, p, loc)

LeaveTokens == [c1 |-> "tok_u1", c2 |-> "tok_u2"]

NextLeave ==
  \/ \E c \in Conns : IoUse(c, LeaveTokens[c]) /\ GatewayOnly
  \/ \E c \in Conns : OnConnection(c) /\ GatewayOnly
  \/ \E c \in Conns : ConnGotParties(c) /\ GatewayOnly
  \/ \E c \in Conns : ConnStatusDone(c) /\ GatewayOnly
  \/ \E c \in Conns : OnFirstPartyUpdate(c, 1, Loc(52, 4, 3, 90, 5)) /\ GatewayOnly
  \/ \E t \in tasks : UpdMemberChecked(t, TRUE) /\ GatewayOnly
  \/ \E t \in tasks : UpdStored(t, TRUE) /\ GatewayOnly
  \/ \E t \in tasks : UpdCacheGot(t, TRUE) /\ GatewayOnly
  \/ \E t \in tasks : UpdDbDone(t, TRUE) /\ GatewayOnly
  \/ \E t \in tasks : UpdCacheSet(t, TRUE) /\ GatewayOnly
  \/ \E c \in {"c1"} : OnPartyLeave(c, 1) /\ GatewayOnly
  \/ \E t \in tasks, ok \in BOOLEAN : LeaveDone(t, ok) /\ GatewayOnly
  \/ \E c \in {"c1"} : RestLeave(c, 1) /\ GatewayOnly

InitLeave ==
  /\ InitSampler /\ InitMap /\ InitClient
  /\ InitNav
  /\ InitGatewayWith({[p \in Parties |-> IF p = 1 THEN {"u1", "u2"} ELSE {}]}, {EmptyStore})

SpecLeave == InitLeave /\ [][NextLeave]_vars

(***************************************************************************)
(* Leaving without location traffic: either member connects at any time   *)
(* (party:member-online is broadcast to the room) and sends party:leave.   *)
(***************************************************************************)
NextLeaveOnly ==
  \/ \E c \in Conns : IoUse(c, LeaveTokens[c]) /\ GatewayOnly
  \/ \E c \in Conns : OnConnection(c) /\ GatewayOnly
  \/ \E c \in Conns : ConnGotParties(c) /\ GatewayOnly
  \/ \E c \in Conns : ConnStatusDone(c) /\ GatewayOnly
  \/ \E c \in Conns : OnPartyLeave(c, 1) /\ GatewayOnly
  \/ \E t \in tasks, ok \in BOOLEAN : LeaveDone(t, ok) /\ GatewayOnly
  \/ \E c \in Conns : RestLeave(c, 1) /\ GatewayOnly

InitLeaveOnly ==
  /\ InitSampler /\ InitMap /\ InitClient
  /\ InitNav
  /\ InitGatewayWith({[p \in Parties |-> IF p = 1 THEN {"u1", "u2"} ELSE {}]}, {EmptyStore})

SpecLeaveOnly == InitLeaveOnly /\ [][NextLeaveOnly]_vars

(***************************************************************************)
(* party:join against a location store that already holds samples         *)
(***************************************************************************)
JoinConns == {"c1"}
JoinCodes == {"code1", "nocode"}

\* A stored sample about to expire, and one just written.
Expiring == [set |-> TRUE, sample |-> Loc(52, 4, 3, 90, 5), expires |-> T0 + 500]
Fresh == [set |-> TRUE, sample |-> Loc(48, 2, 0, 0, 9), expires |-> T0 + LocationTtlMs]

JoinMemberships ==
  {[p \in Parties |-> IF p = 1 THEN m ELSE {}] : m \in {{"u2", "u3"}}}
JoinStores ==
  {[p \in Parties |-> IF p = 1 THEN s ELSE [u \in Users |-> NoLoc]] :
     s \in {f \in [Users -> {NoLoc, Expiring, Fresh}] :
              f["u1"] = NoLoc /\ f["u2"] = Fresh /\ f["u3"] = Expiring}}

NextJoin ==
  \/ \E d \in ClockSteps : Advance(d) /\ GatewayOnly
  \/ \E c \in JoinConns : IoUse(c, "tok_u1") /\ GatewayOnly
  \/ \E c \in JoinConns : OnConnection(c) /\ GatewayOnly
  \/ \E c \in JoinConns : ConnGotParties(c) /\ GatewayOnly
  \/ \E c \in JoinConns, code \in JoinCodes : OnPartyJoin(c, code) /\ GatewayOnly
  \/ \E t \in tasks : JoinLookedUp(t) /\ GatewayOnly
  \/ \E t \in tasks, ok \in BOOLEAN : JoinRecorded(t, ok) /\ GatewayOnly
  \/ \E t \in tasks, ok \in BOOLEAN : JoinGotState(t, ok) /\ GatewayOnly

InitJoin == InitGatewayWith(JoinMemberships, JoinStores) /\ InitSampler /\ InitMap /\ InitClient /\ InitNav

SpecJoin == InitJoin /\ [][NextJoin]_vars

(***************************************************************************)
(* The stored location of one member: its connection writes it with        *)
(* party:update, a write succeeding or failing, time passes up to the      *)
(* expiry and beyond, and party:join reads the party state. One event is   *)
(* dealt with before the next arrives, time is followed from the moment    *)
(* the connection is set up, and the device is moving: each position it    *)
(* sends differs from the one it sent before.                              *)
(***************************************************************************)
TtlSamples == {Loc(52, 4, 3, 90, 5), Loc(48, 2, 7, 180, 9)}

LastSent == IF updates = <<>> THEN {} ELSE {updates[Len(updates)].loc}

NextTtl ==
  \/ \E d \in ClockSteps :
        /\ tasks = {} /\ HandlersRegistered("c1") /\ ticks + 1 < MaxTicks
        /\ Advance(d) /\ GatewayOnly
  \/ \E c \in {"c1"} : IoUse(c, "tok_u1") /\ GatewayOnly
  \/ \E c \in {"c1"} : OnConnection(c) /\ GatewayOnly
  \/ \E c \in {"c1"} : ConnGotParties(c) /\ GatewayOnly
  \/ \E c \in {"c1"} : ConnStatusDone(c) /\ GatewayOnly
  \/ \E c \in {"c1"}, loc \in TtlSamples \ LastSent :
        Len(updates) + 1 < MaxUpdates /\ OnPartyUpdateIdle(c, 1, loc) /\ GatewayOnly
  \/ \E t \in tasks : UpdMemberChecked(t, TRUE) /\ GatewayOnly
  \/ \E t \in tasks : UpdStored(t, TRUE) /\ GatewayOnly
  \/ \E t \in tasks : UpdCacheGot(t, TRUE) /\ GatewayOnly
  \/ \E t \in tasks : UpdDbDone(t, TRUE) /\ GatewayOnly
  \/ \E t \in tasks : UpdCacheSet(t, TRUE) /\ GatewayOnly
  \/ \E c \in {"c1"} : tasks = {} /\ OnPartyJoin(c, "code1") /\ GatewayOnly
  \/ \E t \in tasks : JoinLookedUp(t) /\ GatewayOnly
  \/ \E t \in tasks : JoinRecorded(t, TRUE) /\ GatewayOnly
  \/ \E t \in tasks : JoinGotState(t, TRUE) /\ GatewayOnly

SpecTtl == InitUpdate /\ [][NextTtl]_vars

(***************************************************************************)
(* The sampler alone                                                       *)
(***************************************************************************)
NextSampler ==
  \/ \E cb \in Callbacks, ecb \in ErrorCallbacks \cup {NoCallback} : StartWatching(cb, ecb) /\ SamplerOnly
  \/ \E cb \in Callbacks \cup {NoCallback} : StopWatching(cb) /\ SamplerOnly
  \/ \E patch \in ConfigPatches : UpdateConfig(patch) /\ SamplerOnly
  \/ \E a \in acquiring, position \in Positions : AcquireSuccess(a, position) /\ SamplerOnly
  \/ \E a \in acquiring, code \in ErrorCodes : AcquireError(a, code) /\ SamplerOnly
  \/ \E tm \in timers : TimerFires(tm) /\ SamplerOnly

(***************************************************************************)
(* The sampling loop of one subscriber: fixes arrive, timers fire, the     *)
(* configuration is changed and the subscriber stops.                      *)
(***************************************************************************)
\* Fixes of a subject that drives (2.0 m/s), then creeps (1.0 m/s, same
\* place), then loses the speed reading while 11 m further on.
SamplingFixes ==
  {Position(52000000, 4000000, 20, T0),
   Position(52000000, 4000000, 10, T0 + movingSampleInterval),
   Position(52000100, 4000000, Unknown, T0 + movingSampleInterval)}

NextSampling ==
  \/ \E cb \in {"cb1"} : StartWatching(cb, NoCallback) /\ SamplerOnly
  \/ \E cb \in {NoCallback} : StopWatching(cb) /\ SamplerOnly
  \/ \E patch \in ConfigPatches \ {DEFAULT_CONFIG} : UpdateConfig(patch) /\ SamplerOnly
  \/ \E a \in acquiring, position \in SamplingFixes : AcquireSuccess(a, position) /\ SamplerOnly
  \/ \E tm \in timers : TimerFires(tm) /\ SamplerOnly

InitSampling == InitSampler /\ InitMap /\ InitClient /\ InitNav /\ InitGatewayWith({[p \in Parties |-> {}]}, {EmptyStore})

SpecSampling == InitSampling /\ [][NextSampling]_vars

(***************************************************************************)
(* Navigation state: two devices of one party and the database             *)
(***************************************************************************)
NextNav ==
  \/ \E d \in PartyDevices : NavInitialize(d) /\ NavStep
  \/ \E d \in PartyDevices, position \in {NoLocation, HomeLocation} :
       NavInitDone(d, position) /\ NavStep
  \/ \E d \in PartyDevices : NavLocationUpdate(d, HomeLocation) /\ NavStep
  \/ \E d \in PartyDevices : NavFetchRead(d) /\ NavStep
  \/ \E d \in PartyDevices : NavFetchResolved(d) /\ NavStep
  \/ \E d \in PartyDevices : NavRealtimeDelivered(d) /\ NavStep
  \/ \E d \in PartyDevices, r \in Routes : HandleNavigationFromSuggestion(d, r) /\ NavStep
  \/ \E t \in navTasks, ok \in BOOLEAN : NavPreviewRouted(t, ok) /\ NavStep
  \/ \E d \in PartyDevices : HandleStartNavigation(d) /\ NavStep
  \/ \E t \in navTasks, ok \in BOOLEAN : NavSaved(t, ok) /\ NavStep
  \/ \E t \in navTasks : NavSaveResolved(t) /\ NavStep
  \/ \E d \in PartyDevices : HandleClearNavigation(d) /\ NavStep
  \/ \E d \in PartyDevices : OnStopNavigation(d) /\ NavStep
  \/ \E t \in navTasks, ok \in BOOLEAN : NavCleared(t, ok) /\ NavStep
  \/ \E t \in navTasks : NavClearResolved(t) /\ NavStep
  \/ \E d \in PartyDevices, r \in Routes : OnChangeRoute(d, r) /\ NavStep
  \/ \E t \in navTasks, ok \in BOOLEAN : NavRerouted(t, ok) /\ NavStep

InitSamplerOnly == InitSampler /\ InitMap /\ InitClient /\ InitNav /\ InitGatewayWith({[p \in Parties |-> {}]}, {EmptyStore})

SpecSampler == InitSamplerOnly /\ [][NextSampler]_vars

\* The map page's progress along its route, from the moment both pages have
\* loaded (initialize and the first fetch are over, nothing is stored yet):
\* positions on and off the routes, and a route without steps. The creator
\* moves and manages the route, the other member receives it and may stop
\* it locally; every request to a service succeeds.
Subjects == {<<0, 16>>, <<3, 0>>}

\* The pages of the devices in open have loaded: initialize is over and the
\* first fetch has read the table, which holds at most an active row of the
\* party; the other devices have not opened the page.
PagesLoaded(open, rows) ==
  LET row == IF rows = {} THEN NoRow ELSE CHOOSE x \in rows : TRUE
      state == IF rows = {} THEN NoNav ELSE mapToNavigationState(row) IN
  /\ navRows = rows
  /\ navClock = row.updated_at
  /\ loading = [d \in Devices |-> d \notin open]
  /\ pageUserId = [d \in Devices |-> IF d \in open THEN DeviceUser(d) ELSE NoUser]
  /\ userPartyId = [d \in Devices |->
       IF d \in open THEN MembershipOf(DeviceUser(d)) ELSE NoParty]
  /\ isPartyLeader = [d \in Devices |-> d \in open /\ PartyCreatedBy = DeviceUser(d)]
  /\ currentLocation = [d \in Devices |-> IF d \in open THEN HomeLocation ELSE NoLocation]
  /\ navigationState = [d \in Devices |-> IF d \in open THEN state ELSE NoNav]
  /\ previewRoute = [d \in Devices |-> NoRoute]
  /\ navigationError = [d \in Devices |-> NoError]
  /\ fetchPc = [d \in Devices |-> IF d \in open THEN "done" ELSE "none"]
  /\ fetched = [d \in Devices |-> IF d \in open THEN state ELSE NoNav]
  /\ channel = [d \in Devices |-> <<>>]
  /\ navTasks = {}
  /\ navRequests = 0
  /\ navLog = <<>>
  /\ navApplied = [d \in Devices |->
       IF d \in open /\ rows # {} THEN <<row.updated_at>> ELSE <<>>]
  /\ activeStep = [d \in Devices |->
       IF d \in open THEN Progress(state, HomeLocation).activeStep ELSE NoStep]
  /\ remainingDistance = [d \in Devices |->
       IF d \in open THEN Progress(state, HomeLocation).remainingDistance ELSE Null]
  /\ remainingDuration = [d \in Devices |->
       IF d \in open THEN Progress(state, HomeLocation).remainingDuration ELSE Null]
  /\ partyMembers = [u \in {DeviceUser(d) : d \in Devices} |-> MembershipOf(u)]

InitLoaded == PagesLoaded(PartyDevices, {})

NextProgress ==
  \/ \E d \in {"lead"}, loc \in Subjects : NavLocationUpdate(d, loc) /\ NavStep
  \/ \E d \in PartyDevices : NavRealtimeDelivered(d) /\ NavStep
  \/ \E d \in {"lead"}, r \in Routes \cup {EmptyRoute} :
       HandleNavigationFromSuggestion(d, r) /\ NavStep
  \/ \E t \in navTasks : NavPreviewRouted(t, TRUE) /\ NavStep
  \/ \E d \in {"lead"} : HandleStartNavigation(d) /\ NavStep
  \/ \E t \in navTasks : NavSaved(t, TRUE) /\ NavStep
  \/ \E t \in navTasks : NavSaveResolved(t) /\ NavStep
  \/ \E d \in {"lead"} : HandleClearNavigation(d) /\ NavStep
  \/ \E d \in PartyDevices : OnStopNavigation(d) /\ NavStep
  \/ \E t \in navTasks : NavCleared(t, TRUE) /\ NavStep
  \/ \E t \in navTasks : NavClearResolved(t) /\ NavStep

InitProgress ==
  InitLoaded /\ InitSampler /\ InitMap /\ InitClient /\ InitGatewayWith({[p \in Parties |-> {}]}, {EmptyStore})

SpecProgress == InitProgress /\ [][NextProgress]_vars

\* Two devices of the creator write the party's route: both pages have
\* loaded while the party navigates on r1, and both change the route, each
\* write succeeding or failing.
StoredRoute == NavState(NavParty, PartyCreatedBy, "r1", TRUE, 1)

NextSave ==
  \/ \E d \in LeaderDevices : NavRealtimeDelivered(d) /\ NavStep
  \/ \E t \in navTasks, ok \in BOOLEAN : NavSaved(t, ok) /\ NavStep
  \/ \E t \in navTasks : NavSaveResolved(t) /\ NavStep
  \/ \E d \in LeaderDevices, r \in Routes :
       navRequests < MaxRouteChanges /\ OnChangeRoute(d, r) /\ NavStep
  \/ \E t \in navTasks : NavRerouted(t, TRUE) /\ NavStep

InitSave ==
  /\ PagesLoaded(LeaderDevices, {StoredRoute})
  /\ InitSampler /\ InitMap /\ InitClient /\ InitGatewayWith({[p \in Parties |-> {}]}, {EmptyStore})

SpecSave == InitSave /\ [][NextSave]_vars

\* The creator ends the party's navigation while a member opens the page:
\* the creator's page has loaded with the party on r1, the member's page
\* initializes, fetches and listens. Every request that was made is
\* answered, and every realtime event on its way is delivered.
NextClear ==
  \/ \E d \in {"memb"} : NavInitialize(d) /\ NavStep
  \/ \E d \in {"memb"}, position \in {NoLocation, HomeLocation} :
       NavInitDone(d, position) /\ NavStep
  \/ \E d \in {"memb"} : NavFetchRead(d) /\ NavStep
  \/ \E d \in {"memb"} : NavFetchResolved(d) /\ NavStep
  \/ \E d \in PartyDevices : NavRealtimeDelivered(d) /\ NavStep
  \/ \E d \in {"lead"} : HandleClearNavigation(d) /\ NavStep
  \/ \E t \in navTasks, ok \in BOOLEAN : NavCleared(t, ok) /\ NavStep
  \/ \E t \in navTasks : NavClearResolved(t) /\ NavStep

InitClear ==
  /\ PagesLoaded({"lead"}, {StoredRoute})
  /\ InitSampler /\ InitMap /\ InitClient /\ InitGatewayWith({[p \in Parties |-> {}]}, {EmptyStore})

ClearFairness ==
  /\ WF_vars(\E d \in {"memb"} : NavFetchRead(d) /\ NavStep)
  /\ WF_vars(\E d \in {"memb"} : NavFetchResolved(d) /\ NavStep)
  /\ WF_vars(\E d \in PartyDevices : NavRealtimeDelivered(d) /\ NavStep)
  /\ WF_vars(\E t \in navTasks, ok \in BOOLEAN : NavCleared(t, ok) /\ NavStep)
  /\ WF_vars(\E t \in navTasks : NavClearResolved(t) /\ NavStep)

SpecClearFair == InitClear /\ [][NextClear]_vars /\ ClearFairness

\* A member leaves the party, before or after opening the map page: the
\* party navigates on r1 and the creator's page has loaded; the member's
\* page initializes, fetches and listens, or finds no party and navigates
\* alone.
NextNavLeave ==
  \/ \E u \in {"u2"} : LeaveParty(u) /\ NavOnly
  \/ \E d \in {"memb"} : NavInitialize(d) /\ NavStep
  \/ \E d \in {"memb"}, position \in {NoLocation, HomeLocation} :
       NavInitDone(d, position) /\ NavStep
  \/ \E d \in {"memb"} : NavFetchRead(d) /\ NavStep
  \/ \E d \in {"memb"} : NavFetchResolved(d) /\ NavStep
  \/ \E d \in PartyDevices : NavRealtimeDelivered(d) /\ NavStep
  \/ \E d \in {"memb"}, r \in Routes : HandleNavigationFromSuggestion(d, r) /\ NavStep
  \/ \E t \in navTasks : NavPreviewRouted(t, TRUE) /\ NavStep
  \/ \E d \in {"memb"} : HandleStartNavigation(d) /\ NavStep
  \/ \E d \in PartyDevices : HandleClearNavigation(d) /\ NavStep
  \/ \E t \in navTasks : NavCleared(t, TRUE) /\ NavStep
  \/ \E t \in navTasks : NavClearResolved(t) /\ NavStep

InitNavLeave ==
  /\ PagesLoaded({"lead"}, {StoredRoute})
  /\ InitSampler /\ InitMap /\ InitClient /\ InitGatewayWith({[p \in Parties |-> {}]}, {EmptyStore})

SpecNavLeave == InitNavLeave /\ [][NextNavLeave]_vars

InitMapOnly ==
  InitMap /\ InitClient /\ InitSampler /\ InitNav /\ InitGatewayWith({[p \in Parties |-> {}]}, {EmptyStore})

SpecMap == InitMapOnly /\ [][NextMap]_vars

\* The party client and the location service of one page: party events
\* arrive, location sharing starts and stops with the party, samples are
\* handed to the sample callback.
NextShare ==
  \/ \E dt \in {ThrottleDelay \div 2} : ClientTick(dt)
  \/ \E p \in {1} : OnPartyJoined(p) /\ ClientOnly
  \/ OnPartyLeft /\ ClientOnly
  \/ OnMemberJoined /\ ClientOnly
  \/ \E p \in Parties, success \in BOOLEAN : DetailsResolved(p, success) /\ ClientOnly
  \/ \E q \in Parties : ShareGranted(q) /\ ClientOnly
  \/ \E a \in acquiring : OnSample(a, ShareFix) /\ ClientOnly
  \/ \E tm \in timers : SampleTimerFires(tm) /\ ClientOnly
  \/ ThrottleFires /\ ClientOnly

InitShare ==
  InitClient /\ InitMap /\ InitSampler /\ InitNav
    /\ InitGatewayWith({[p \in Parties |-> {}]}, {EmptyStore})

SpecShare == InitShare /\ [][NextShare]_vars

InitNavOnly == InitNav /\ InitSampler /\ InitMap /\ InitClient /\ InitGatewayWith({[p \in Parties |-> {}]}, {EmptyStore})

SpecNav == InitNavOnly /\ [][NextNav]_vars

(***************************************************************************)
(* C1. Rate limiting per connection: two party:update events that pass the *)
(* limiter on one connection are at least minInterval (1000 ms) apart, and *)
(* an update that arrives less than 1000 ms after one that passed is       *)
(* dropped silently: it starts no handler (hence no store write), and no   *)
(* error, acknowledgement or broadcast is ever emitted for it.             *)
(***************************************************************************)
UpdateIdx == 1..Len(updates)
EmitIdx == 1..Len(emitted)

C1_RateLimit ==
  /\ \A i, j \in UpdateIdx :
       (i < j /\ updates[i].conn = updates[j].conn
          /\ updates[i].verdict = "passed" /\ updates[j].verdict = "passed")
       => updates[j].at - updates[i].at >= minInterval
  /\ \A j \in UpdateIdx :
       (\E i \in UpdateIdx : /\ i < j
                             /\ updates[i].conn = updates[j].conn
                             /\ updates[i].verdict = "passed"
                             /\ updates[j].at - updates[i].at < minInterval)
       => /\ updates[j].verdict = "dropped"
          /\ \A t \in tasks : t.id # updates[j].id
          /\ \A k \in EmitIdx : emitted[k].id # updates[j].id

\* One connection: an update passes, the next 500 ms later is dropped, the
\* third, exactly 1000 ms after the first, passes and is broadcast.
C1_Witness ==
  /\ Len(updates) = 3
  /\ updates[1].verdict = "passed"
  /\ updates[2].verdict = "dropped" /\ updates[2].at = updates[1].at + 500
  /\ updates[3].verdict = "passed" /\ updates[3].at = updates[1].at + minInterval
  /\ \E k \in EmitIdx : emitted[k].ev = "party:location-update" /\ emitted[k].id = updates[3].id

(***************************************************************************)
(* C3. Per-user ordering: the party:location-update broadcasts of one user *)
(* are emitted in the order in which the gateway accepted the updates.     *)
(***************************************************************************)
C3_BroadcastOrder ==
  \A i, j \in EmitIdx :
    (/\ i < j
     /\ emitted[i].ev = "party:location-update"
     /\ emitted[j].ev = "party:location-update"
     /\ emitted[i].userId = emitted[j].userId)
    => emitted[i].id < emitted[j].id

(***************************************************************************)
(* C11. A party:update whose coordinates are out of range (latitude        *)
(* outside [-90,90], longitude outside [-180,180]) or whose sender is not  *)
(* a member of the named party never writes to the location store and is   *)
(* never broadcast: whatever is emitted for it is one error event to the   *)
(* sending socket alone, NOT_IN_PARTY for a non-member and                 *)
(* INVALID_LOCATION otherwise (LOCATION_UPDATE_ERROR if the membership     *)
(* lookup itself failed); once its handler has finished that error has     *)
(* been emitted, and the connection is still open.                         *)
(***************************************************************************)
OutOfRange(loc) ==
  \/ loc.latitude \notin (0 - 90)..90
  \/ loc.longitude \notin (0 - 180)..180

NotMember(e) == userId[e.conn] \notin members[e.party]

EmitsOf(id) == {k \in EmitIdx : emitted[k].id = id}

Running(id) == \E t \in tasks : t.id = id

C12_InvalidAlwaysAnswered ==
  \A j \in UpdateIdx :
    LET e == updates[j] IN
    ((NotMember(e) \/ OutOfRange(e.loc)) /\ ~Running(e.id)) =>
      \E k \in EmitsOf(e.id) : emitted[k].ev = "error" /\ emitted[k].by = e.conn

(***************************************************************************)
(* C13. Store before broadcast.  A party:location-update of an update is   *)
(* emitted, to the party room, only after the store write for the same     *)
(* (party, user) key of that update has completed.  As amended: an update  *)
(* whose store write succeeded and whose handler has finished was either   *)
(* broadcast to the room, or a later await of the handler (the display    *)
(* name lookup) failed and the sender got LOCATION_UPDATE_ERROR; never     *)
(* both.                                                                   *)
(***************************************************************************)
StoredAt(id) == {k \in EmitsOf(id) : emitted[k].ev = "store:location"}

BroadcastAt(id) == {k \in EmitsOf(id) : emitted[k].ev = "party:location-update"}

FailedAt(id) ==
  {k \in EmitsOf(id) : emitted[k].ev = "error" /\ emitted[k].info = "LOCATION_UPDATE_ERROR"}

StoreBeforeBroadcast ==
  \A j \in UpdateIdx : \A k \in BroadcastAt(updates[j].id) :
    /\ emitted[k].to = "room" /\ emitted[k].party = updates[j].party
    /\ \E i \in StoredAt(updates[j].id) :
         /\ i < k
         /\ emitted[i].party = emitted[k].party
         /\ emitted[i].userId = emitted[k].userId
         /\ emitted[i].loc = emitted[k].loc

C13_StoreThenBroadcastOrError ==
  /\ StoreBeforeBroadcast
  /\ \A j \in UpdateIdx :
       LET id == updates[j].id IN
       (StoredAt(id) # {} /\ ~Running(id)) =>
         /\ BroadcastAt(id) # {} \/ FailedAt(id) # {}
         /\ ~(BroadcastAt(id) # {} /\ FailedAt(id) # {})
         /\ \A k \in FailedAt(id) :
              emitted[k].to = "socket" /\ emitted[k].by = updates[j].conn

\* One update was stored and then broadcast; another was stored and then
\* failed in the name lookup.
C13_Witness ==
  /\ \E j \in UpdateIdx :
       StoredAt(updates[j].id) # {} /\ BroadcastAt(updates[j].id) # {}
  /\ \E j \in UpdateIdx :
       StoredAt(updates[j].id) # {} /\ FailedAt(updates[j].id) # {}

\* C13 as stated: every update whose store write succeeded is broadcast
\* by the time its handler has finished.
C13_StoredAlwaysBroadcast ==
  /\ StoreBeforeBroadcast
  /\ \A j \in UpdateIdx :
       (StoredAt(updates[j].id) # {} /\ ~Running(updates[j].id)) =>
         BroadcastAt(updates[j].id) # {}

(***************************************************************************)
(* C14. A failed store write is not swallowed: when storeLocationUpdate    *)
(* rejects, the next thing the handler does is emit an error event to the  *)
(* sending socket; the update is never written to the store and never      *)
(* broadcast, and its handler ends there.                                  *)
(***************************************************************************)
RejectedAt == {k \in EmitIdx : emitted[k].ev = "store:rejected"}

C14_StoreFailureSurfaced ==
  \A k \in RejectedAt :
    LET id == emitted[k].id IN
    /\ StoredAt(id) = {} /\ BroadcastAt(id) = {}
    /\ ~Running(id)
    /\ k + 1 \in EmitIdx
    /\ emitted[k + 1].ev = "error" /\ emitted[k + 1].id = id
    /\ emitted[k + 1].to = "socket" /\ emitted[k + 1].by = emitted[k].by
    /\ Cardinality(EmitsOf(id)) = 2

\* A store write was rejected, and a later update of the same connection
\* was stored and broadcast.
C14_Witness ==
  \E k \in RejectedAt : \E j \in UpdateIdx :
    /\ updates[j].id > emitted[k].id
    /\ updates[j].conn = emitted[k].by
    /\ BroadcastAt(updates[j].id) # {}

(***************************************************************************)
(* C15. Per-user rate limit: any two location updates of the same user     *)
(* that were accepted and broadcast arrived at least 1000 ms apart, also   *)
(* when they came in on different connections of that user.                *)
(***************************************************************************)
C15_PerUserRateLimit ==
  \A i, j \in UpdateIdx :
    (/\ i < j
     /\ userId[updates[i].conn] = userId[updates[j].conn]
     /\ updates[i].verdict = "passed" /\ BroadcastAt(updates[i].id) # {}
     /\ updates[j].verdict = "passed" /\ BroadcastAt(updates[j].id) # {})
    => updates[j].at - updates[i].at >= minInterval

(***************************************************************************)
(* C16. Events of one connection take effect in the order they were sent:  *)
(* no party:location-update of a user, for an update sent before that      *)
(* user's party:leave, is broadcast to the party after the                 *)
(* party:member-left of that leave.                                        *)
(***************************************************************************)
C16_NoUpdateAfterMemberLeft ==
  \A k1, k2 \in EmitIdx :
    ~(/\ k1 < k2
      /\ emitted[k1].ev = "party:member-left"
      /\ emitted[k2].ev = "party:location-update"
      /\ emitted[k1].by = emitted[k2].by
      /\ emitted[k1].userId = emitted[k2].userId
      /\ emitted[k1].party = emitted[k2].party
      /\ emitted[k2].id < emitted[k1].id)

(***************************************************************************)
(* C18. Once a party:leave of a current member has completed (party:left   *)
(* was sent to the leaver): the leaving connection is not in the party's   *)
(* room and is a receiver of no later broadcast to that party; the         *)
(* party:member-left of that leave was sent once, just before, to the      *)
(* others in the room and not to the leaver; and no connection receives    *)
(* more than one party:member-left for that user.                          *)
(***************************************************************************)
LeftAt == {k \in EmitIdx : emitted[k].ev = "party:left"}

MemberLeftOf(u, p) ==
  {i \in EmitIdx : /\ emitted[i].ev = "party:member-left"
                   /\ emitted[i].userId = u /\ emitted[i].party = p}

JoinEnded(t) == \A t2 \in tasks' : t2.id # t.id

C17_JoinStep ==
  /\ \A c \in Conns :
       rooms'[c] # rooms[c] =>
         \E t \in tasks :
           /\ t.kind = "join" /\ t.pc = "joinParty" /\ t.conn = c
           /\ t.party # NoParty /\ t.party = getPartyByCode(t.info)
           /\ rooms'[c] = rooms[c] \cup {t.party}
           /\ userId[c] \in members'[t.party]
           /\ emitted' = emitted
  /\ \A k \in (Len(emitted) + 1)..Len(emitted') :
       emitted'[k].ev = "party:member-joined" =>
         /\ emitted'[k].party \in rooms[emitted'[k].by]
         /\ emitted'[k].userId \in members[emitted'[k].party]
         /\ emitted'[k].to = "others"
         /\ emitted'[k].by \notin emitted'[k].rcpt
  /\ \A t \in tasks :
       (t.kind = "join" /\ t.pc \in {"getPartyByCode", "joinParty"} /\ JoinEnded(t)) =>
         /\ rooms' = rooms /\ members' = members
         /\ Len(emitted') = Len(emitted) + 1
         /\ emitted'[Len(emitted')].ev = "error"
         /\ emitted'[Len(emitted')].info \in {"PARTY_NOT_FOUND", "PARTY_JOIN_ERROR"}
         /\ emitted'[Len(emitted')].rcpt = {t.conn}

C17_JoinGuarded == [][C17_JoinStep]_vars

\* One join was refused at joinParty and left the connection outside every
\* room; a second join went through and party:member-joined was broadcast.
C17_Witness ==
  \E k1, k2 \in EmitIdx :
    /\ k1 < k2
    /\ emitted[k1].info = "PARTY_JOIN_ERROR"
    /\ emitted[k2].ev = "party:member-joined"
    /\ emitted[k2].party \in rooms[emitted[k2].by]

(***************************************************************************)
(* C19. Acquisition errors: when getCurrentPosition fails while the        *)
(* sampler is watching, a retry is scheduled after 5000 ms, except after a *)
(* permission denial, which is handed to the error callbacks and schedules *)
(* no further acquisition.                                                 *)
(***************************************************************************)
ErrorSurfaced == Len(errorsDelivered') = Len(errorsDelivered) + 1

C19_ErrorStep ==
  ErrorSurfaced =>
    LET e == errorsDelivered'[Len(errorsDelivered')] IN
    /\ e.to = errorCallbacks
    /\ IF e.code = "PERMISSION_DENIED"
         THEN timers' = timers /\ acquiring' \subseteq acquiring
         ELSE isWatching => timers' = timers \cup {[id |-> e.acq, delay |-> RetryDelay]}

C19_RetryUnlessDenied == [][C19_ErrorStep]_vars

(***************************************************************************)
(* C20. Motion classification: a delivered sample leaves the sampler       *)
(* moving exactly when its speed is reported and at least the threshold,   *)
(* or its speed is not reported, there is a previous sample, and the       *)
(* distance from it divided by the elapsed time exceeds the threshold.     *)
(* In particular a reported speed below the threshold, and a first sample  *)
(* without a speed, are stationary.                                        *)
(***************************************************************************)
ClaimedMoving(position, previous) ==
  \/ position.speed # Unknown /\ position.speed >= config.motionThreshold
  \/ /\ position.speed = Unknown
     /\ previous # NoPosition
     /\ position.timestamp > previous.timestamp
     /\ calculateDistance(previous.latitude, previous.longitude,
                          position.latitude, position.longitude) * 10
          > config.motionThreshold * (position.timestamp - previous.timestamp)

C20_ClassifyStep ==
  Len(delivered') = Len(delivered) + 1 =>
    isMoving' = ClaimedMoving(lastPosition', lastPosition)

C20_MotionClassification == [][C20_ClassifyStep]_vars

(***************************************************************************)
(* C21. Adaptive interval: when a sample is delivered while the sampler is *)
(* watching, one timer is set for the next acquisition, with the moving    *)
(* interval of the configuration if that sample left the sampler moving    *)
(* and the stationary interval otherwise, and it becomes the sampler's     *)
(* current timer; when the sampler is not watching no timer is set.        *)
(***************************************************************************)
SampleDelivered == Len(delivered') = Len(delivered) + 1

C21_IntervalStep ==
  SampleDelivered =>
    LET acq == delivered'[Len(delivered')].acq
        delay == IF isMoving' THEN config.movingSampleInterval
                 ELSE config.stationarySampleInterval IN
    IF isWatching
      THEN /\ timers' = timers \cup {[id |-> acq, delay |-> delay]}
           /\ sampleTimer' = acq
      ELSE timers' = timers

C21_AdaptiveInterval == [][C21_IntervalStep]_vars

\* With the default configuration: the latest sample left the sampler
\* stationary and the current timer waits 10000 ms, while an earlier sample
\* was moving (its 2000 ms timer has fired: a second acquisition was made).
C21_Witness ==
  /\ isWatching /\ ~isMoving /\ Len(delivered) >= 2
  /\ config = DEFAULT_CONFIG
  /\ [id |-> sampleTimer, delay |-> stationarySampleInterval] \in timers
  /\ lastPosition.speed # Unknown

(***************************************************************************)
(* C22. Closest step: the index the page computes for a position and a     *)
(* non-empty sequence of steps is the index (counted from 0) of a step     *)
(* whose maneuver is nearest to the position in the plane, and no step     *)
(* before it is as near; for maneuvers at (0,0), (0,1), (0,2) and the      *)
(* position (0,0.9), in tenths <<0,0>>, <<0,10>>, <<0,20>> and <<0,9>>,    *)
(* it is 1.                                                                 *)
(***************************************************************************)
PlanarSquare(a, b) == (a[1] - b[1]) * (a[1] - b[1]) + (a[2] - b[2]) * (a[2] - b[2])

Nearest(steps, loc, k) ==
  /\ k \in 0 .. (Len(steps) - 1)
  /\ \A j \in 1 .. Len(steps) :
       PlanarSquare(loc, steps[k + 1].maneuverLocation)
         <= PlanarSquare(loc, steps[j].maneuverLocation)
  /\ \A j \in 1 .. k :
       PlanarSquare(loc, steps[k + 1].maneuverLocation)
         < PlanarSquare(loc, steps[j].maneuverLocation)

Progressing(d) ==
  /\ navigationState[d] # NoNav
  /\ currentLocation[d] # NoLocation
  /\ Len(Steps(navigationState[d].route)) > 0

C22_ClosestStepIndex ==
  \A d \in Devices :
    Progressing(d) =>
      LET steps == Steps(navigationState[d].route)
          loc == currentLocation[d] IN
      /\ Nearest(steps, loc, closestIndex(steps, loc))
      /\ (/\ [i \in 1 .. Len(steps) |-> steps[i].maneuverLocation]
              = <<(<<0, 0>>), (<<0, 10>>), (<<0, 20>>)>>
          /\ loc = <<0, 9>>) => closestIndex(steps, loc) = 1

\* The page of the example: on r1 at <<0, 9>>, its active step is the second.
C22_Witness ==
  \E d \in Devices :
    /\ Progressing(d)
    /\ navigationState[d].route = "r1"
    /\ currentLocation[d] = <<0, 9>>
    /\ activeStep[d] = Steps("r1")[2]

(***************************************************************************)
(* C23. Remaining route: while a page has a navigation state with at least *)
(* one step and knows its position, its remaining distance is the sum of   *)
(* the distances of the steps from the closest index to the last one, the  *)
(* closest step included, its remaining duration the sum of their          *)
(* durations, and its active step the step at the closest index.           *)
(***************************************************************************)
RECURSIVE DistanceFrom(_, _)
DistanceFrom(steps, i) ==
  IF i > Len(steps) THEN 0 ELSE steps[i].distance + DistanceFrom(steps, i + 1)

RECURSIVE DurationFrom(_, _)
DurationFrom(steps, i) ==
  IF i > Len(steps) THEN 0 ELSE steps[i].duration + DurationFrom(steps, i + 1)

C25_StaleOverThreshold ==
  \A m \in MapMembers :
    markerStale[m] # "none" =>
      /\ (markerStale[m] = "stale") <=> (checkedAge[m] > 30000)
      /\ checkedAge[m] = 30000 => markerStale[m] = "fresh"

\* One marker checked at an age of exactly 30 000 ms and fresh, the other
\* checked one millisecond later in its life and stale.
C25_Witness ==
  \E m, x \in MapMembers :
    /\ checkedAge[m] = 30000 /\ markerStale[m] = "fresh"
    /\ checkedAge[x] = 30001 /\ markerStale[x] = "stale"

(***************************************************************************)
(* C26. One navigation state per party, replaced wholesale: the table      *)
(* holds at most one row for a party, so at most one active state, and     *)
(* every column of that row comes from the latest write of a route: its    *)
(* address is the address of its route (none if that route has none, not   *)
(* the address of the route before) and it is active.  Two devices of the  *)
(* creator may write at the same time.                                     *)
(***************************************************************************)
C26_SingleWholesaleRow ==
  /\ \A x \in navRows : Cardinality(RowsOf(x.party_id)) <= 1
  /\ \A x \in navRows :
       /\ x.destination_address = (IF x.route = "r1" THEN "a1" ELSE "")
       /\ x.created_by = PartyCreatedBy
       /\ x.is_active

\* Both devices have written and neither has seen its answer yet: r1, with
\* an address, was written first and r2, without one, replaced it.
C26_Witness ==
  \E t1, t2 \in navTasks :
    /\ t1.dev # t2.dev
    /\ t1.pc = "saved" /\ t2.pc = "saved"
    /\ t1.route = "r1" /\ t2.route = "r2" /\ t1.stamp < t2.stamp
    /\ navRows = {[party_id |-> NavParty, created_by |-> PartyCreatedBy, route |-> "r2",
                   destination_address |-> "", is_active |-> TRUE,
                   updated_at |-> t2.stamp]}

(***************************************************************************)
(* C27. Clearing reaches the members: once the party's row is marked       *)
(* inactive (and no route is written after it), a read of the active state *)
(* gives none and the navigation state of every page that listens to the   *)
(* party becomes none and stays none.                                      *)
(***************************************************************************)
RowCleared == navRows # {} /\ \A x \in navRows : ~x.is_active

AllListenersNone ==
  /\ \A d \in PartyDevices : Subscribed(d) => navigationState[d] = NoNav
  /\ \A d \in PartyDevices : fetchPc[d] = "called" => ~(navRow # NoRow /\ navRow.is_active)

C27_ClearReachesMembers == RowCleared ~> [](RowCleared => AllListenersNone)

(***************************************************************************)
(* C28. Leaving invalidates locally: when the user of a page has left the  *)
(* party and nothing is on its way to the page any more, the page holds no *)
(* navigation state of a party; the party's stored row is as the creator   *)
(* wrote it, and a state without party id stays as it is.                  *)
(***************************************************************************)
Settled(d) ==
  /\ ~loading[d]
  /\ channel[d] = <<>>
  /\ fetchPc[d] \in {"none", "done"}
  /\ \A t \in navTasks : t.dev # d

HasLeft(d) == pageUserId[d] # NoUser /\ partyMembers[pageUserId[d]] = NoParty

C28_LeaveClearsPartyState ==
  \A d \in Devices :
    (HasLeft(d) /\ Settled(d)) => navigationState[d].party_id = NoParty

(***************************************************************************)
(* C30. Verbatim broadcast: the sample of every party:location-update is   *)
(* the sample the client submitted: latitude, longitude, speed, heading    *)
(* and accuracy are equal, and an unknown speed or heading stays unknown.  *)
(***************************************************************************)
C30_BroadcastVerbatim ==
  \A j \in UpdateIdx : \A k \in BroadcastAt(updates[j].id) :
    /\ emitted[k].loc.latitude = updates[j].loc.latitude
    /\ emitted[k].loc.longitude = updates[j].loc.longitude
    /\ emitted[k].loc.speed = updates[j].loc.speed
    /\ emitted[k].loc.heading = updates[j].loc.heading
    /\ emitted[k].loc.accuracy = updates[j].loc.accuracy

(***************************************************************************)
(* C29. Location expiry: a stored location of (party, user) is readable    *)
(* until 5 minutes (300 s) after the most recent write of that key, every  *)
(* accepted update rewriting the key and restarting the period, and a read *)
(* after that gives what it gives for a key that was never written: the    *)
(* party state read for party:joined holds, for each member, the sample of *)
(* the member's last write when that write is less than 300 s old, and     *)
(* nothing for the member otherwise.                                       *)
(***************************************************************************)
WritesOf(p, u) ==
  {k \in 1..Len(emitted) :
     emitted[k].ev = "store:location" /\ emitted[k].party = p /\ emitted[k].userId = u}

LastWriteOf(p, u) == CHOOSE k \in WritesOf(p, u) : \A j \in WritesOf(p, u) : j <= k

WrittenWithin(p, u, t) ==
  /\ WritesOf(p, u) # {}
  /\ emitted[LastWriteOf(p, u)].at + 300 * 1000 > t

ReadsLastLiveWrites(e) ==
  e.snap.locations =
    {<<u, emitted[LastWriteOf(e.party, u)].loc>> :
       u \in {m \in members[e.party] : WrittenWithin(e.party, m, e.at)}}

C29_LocationExpiry ==
  [][\A k \in 1..Len(emitted') :
       (k > Len(emitted) /\ emitted'[k].ev = "party:joined")
         => ReadsLastLiveWrites(emitted'[k])
    ]_vars

\* u1 wrote its location twice; a party state read 300 s or more after the
\* first write, and less than 300 s after the second, holds the second sample.
C29_Witness ==
  \E k \in 1..Len(emitted) : \E w1, w2 \in WritesOf(1, "u1") :
    /\ emitted[k].ev = "party:joined" /\ emitted[k].party = 1
    /\ w1 < w2 /\ w2 < k
    /\ emitted[w1].at + 300 * 1000 <= emitted[k].at
    /\ emitted[w1].loc # emitted[w2].loc
    /\ emitted[k].snap.locations = {<<"u1", emitted[w2].loc>>}

(***************************************************************************)
(* C31. Rate-limit window from the last accepted update: an update that    *)
(* was rejected by validation (not a member, invalid coordinates) or       *)
(* dropped by the rate limiter neither starts nor extends the window, so a *)
(* valid update of a member that arrives at least 1000 ms after the last   *)
(* accepted update of its connection is not dropped, however shortly it    *)
(* follows a rejected one.                                                 *)
(***************************************************************************)
ValidUpdate(i) ==
  /\ userId[updates[i].conn] \in members[updates[i].party]
  /\ ~InvalidLocation(updates[i].loc)

AcceptedUpdate(i) == updates[i].verdict = "passed" /\ ValidUpdate(i)

C31_WindowFromLastAccepted ==
  \A j \in UpdateIdx :
    (/\ ValidUpdate(j)
     /\ \A i \in UpdateIdx :
          (i < j /\ updates[i].conn = updates[j].conn /\ AcceptedUpdate(i))
            => updates[j].at - updates[i].at >= minInterval)
    => updates[j].verdict = "passed"

(***************************************************************************)
(* C4. Version monotonicity: the update stamps of the received states a    *)
(* follower applies, from the initial fetch or from the realtime           *)
(* subscription, never decrease: no state older than one already applied   *)
(* is applied.                                                             *)
(***************************************************************************)
Follower(d) == MembershipOf(DeviceUser(d)) # NoParty /\ DeviceUser(d) # PartyCreatedBy

C4_VersionMonotonic ==
  \A d \in Devices :
    Follower(d) =>
      \A i, j \in 1..Len(navApplied[d]) :
        i < j => navApplied[d][i] <= navApplied[d][j]

(***************************************************************************)
(* C5. Leader-only writes: every navigation request (set destination,      *)
(* start, change route, stop, clear) of a party member who is not the      *)
(* party's recorded leader fails, and none of them reaches the database.   *)
(***************************************************************************)
C5_NonLeaderWriteFails ==
  /\ \A k \in 1..Len(navLog) :
       Follower(navLog[k].dev) =>
         navLog[k].outcome \in {"refused", "ignored", "waiting", "error"}
  /\ \A t \in navTasks :
       Follower(t.dev) => t.pc \notin {"save", "saved", "clear", "cleared"}

(***************************************************************************)
(* C6. Cancellation: while the sampler is stopped there is no callback a   *)
(* sample could be delivered to, and a sample is never delivered to a      *)
(* callback when stopWatching() stopped the sampler between the start of   *)
(* the sample's acquisition and its delivery.                              *)
(***************************************************************************)
C6_NoDeliveryAfterStop ==
  /\ ~isWatching => callbacks = {}
  /\ \A k \in 1..Len(delivered) :
       delivered[k].to # {} => delivered[k].startedAt = delivered[k].stops

(***************************************************************************)
(* C2. A handshake with no token, or with a token that verifyAccessToken   *)
(* rejects (null) or throws on, is rejected by the middleware: the         *)
(* connection handler never starts for it, it is in no room, no handler    *)
(* runs for it and nothing (presence event or other) is emitted for it.    *)
(***************************************************************************)
BadHandshake(c) ==
  /\ connState[c] # "idle"
  /\ \/ handshake[c] = NoToken
     \/ verifyAccessToken(handshake[c]).kind \in {"null", "throw"}

C2_RejectedBeforeHandler ==
  \A c \in Conns :
    BadHandshake(c) =>
      /\ connState[c] = "rejected"
      /\ connPc[c] = "none"
      /\ rooms[c] = {}
      /\ \A t \in tasks : t.conn # c
      /\ \A k \in EmitIdx : emitted[k].by # c
      /\ \A j \in UpdateIdx : updates[j].conn # c

\* One connection presented an expired token and was rejected while the
\* other, with a valid token, was served up to its presence broadcast.
C2_Witness ==
  /\ handshake["c1"] = "expired" /\ connState["c1"] = "rejected"
  /\ connPc["c2"] = "ready"
  /\ \E k \in EmitIdx : emitted[k].by = "c2" /\ emitted[k].ev = "party:member-online"

(***************************************************************************)
(* C7. When an authenticated connection has closed and every handler of    *)
(* that connection has run to completion, party:member-offline has been    *)
(* broadcast (with the offline write) for every party of its user.         *)
(***************************************************************************)
ConnQuiescent(c) ==
  /\ connPc[c] \in {"none", "ready"}
  /\ \A t \in tasks : t.conn # c

C7_OfflineAfterClose ==
  \A c \in Conns :
    (connState[c] = "closed" /\ ConnQuiescent(c)) =>
      \A p \in getUserParties(userId[c]) :
        \E k \in EmitIdx : /\ emitted[k].ev = "party:member-offline"
                           /\ emitted[k].by = c
                           /\ emitted[k].party = p
                           /\ emitted[k].userId = userId[c]

(***************************************************************************)
(* C8. Once a connection is authenticated its connection handler runs to   *)
(* the end of its loop, and when the handler of an open connection has     *)
(* finished, the socket is in the room of exactly the parties its user     *)
(* belongs to, one party:member-online was broadcast to each of those      *)
(* parties and none to any other, and the user is marked online there      *)
(* (unless a disconnect handler of the same user has set the flag back     *)
(* since).                                                                 *)
(***************************************************************************)
OnlineEmits(c, p) ==
  {k \in EmitIdx : /\ emitted[k].ev = "party:member-online"
                   /\ emitted[k].by = c
                   /\ emitted[k].party = p
                   /\ emitted[k].userId = userId[c]
                   /\ emitted[k].to = "room"}

NoOfflineFor(u) ==
  \A k \in EmitIdx : ~(emitted[k].ev = "party:member-offline" /\ emitted[k].userId = u)

AutoJoined(c) ==
  \A p \in Parties :
    IF userId[c] \in members[p]
      THEN /\ p \in rooms[c]
           /\ Cardinality(OnlineEmits(c, p)) = 1
           /\ NoOfflineFor(userId[c]) => online[p][userId[c]]
      ELSE /\ p \notin rooms[c]
           /\ OnlineEmits(c, p) = {}

C9_NoDuplicateMemberJoined ==
  \A k \in EmitIdx :
    emitted[k].ev = "party:member-joined" => emitted[k].info = "first"

(***************************************************************************)
(* C10. Snapshot completeness: the party:joined snapshot holds one sample  *)
(* for exactly those other members whose stored location has not expired   *)
(* when the snapshot is sent, each equal to the stored sample, and none    *)
(* for a member whose location expired or was never set; when the joiner   *)
(* has no live sample of its own the snapshot holds exactly N samples.     *)
(***************************************************************************)
LiveOthers(p, u) ==
  {m \in members[p] \ {u} : locStore[p][m].set /\ locStore[p][m].expires > now}

SnapshotComplete(e) ==
  LET owners == {x[1] : x \in e.snap.locations} IN
    /\ owners \ {e.userId} = LiveOthers(e.party, e.userId)
    /\ \A x \in e.snap.locations : x[2] = locStore[e.party][x[1]].sample
    /\ Cardinality(e.snap.locations) = Cardinality(owners)
    /\ ~(locStore[e.party][e.userId].set /\ locStore[e.party][e.userId].expires > now)
         => Cardinality(e.snap.locations) = Cardinality(LiveOthers(e.party, e.userId))

LeaderPublished(state) ==
  state # NoNav => state.party_id = NavParty /\ state.created_by = PartyCreatedBy

SettlesRequestOf(d) ==
  /\ Len(navLog') = Len(navLog) + 1
  /\ navLog'[Len(navLog')].dev = d

C32_FollowerCannotChange ==
  [][\A d \in Devices :
       Follower(d) =>
         /\ LeaderPublished(navigationState'[d])
         /\ SettlesRequestOf(d) => navigationState'[d] = navigationState[d]
    ]_vars

(***************************************************************************)
(* C34. One sampling chain: at every moment the sampler has at most one    *)
(* chain alive, that is at most one pending acquisition or pending timer,  *)
(* whatever the order of startWatching, stopWatching and updateConfig.     *)
(***************************************************************************)
ChainsAlive == Cardinality(acquiring) + Cardinality(timers)

C34_OneSamplingChain == ChainsAlive <= 1

(***************************************************************************)
(* C38. No error callback after stopWatching(): an acquisition error that  *)
(* is reported while the sampler is stopped is delivered to no error       *)
(* callback, every error callback known to the sampler then having been    *)
(* registered by a startWatching that came before the stop.                *)
(***************************************************************************)
ErrorReported ==
  /\ Len(errorsDelivered') = Len(errorsDelivered) + 1
  /\ errorsDelivered'[Len(errorsDelivered')].code # "NOT_SUPPORTED"

C38_NoErrorCallbackAfterStop ==
  [][(ErrorReported /\ ~isWatching) => errorsDelivered'[Len(errorsDelivered')].to = {}]_vars

(***************************************************************************)
(* C35. Presence follows connections: once every connect and disconnect    *)
(* handler has run to completion, a member's online flag in a party is     *)
(* true exactly when that user has at least one open authenticated         *)
(* connection.                                                             *)
(***************************************************************************)
HandlersCompleted ==
  /\ tasks = {}
  /\ \A c \in Conns :
       /\ ConnQuiescent(c)
       /\ connState[c] = "open" => HandlersRegistered(c)

Connected(u) == \E c \in Conns : connState[c] = "open" /\ userId[c] = u

C35_OnlineIffConnected ==
  HandlersCompleted =>
    \A p \in Parties : \A u \in members[p] : online[p][u] = Connected(u)

(***************************************************************************)
(* C36. Latest sample wins: once no party:update handler is in flight, the *)
(* store's value for (party, user) is the sample of the most recently      *)
(* accepted update of that user for that party; the write of an update     *)
(* accepted earlier never replaces the write of one accepted later.        *)
(***************************************************************************)
AcceptedFor(p, u) ==
  {i \in UpdateIdx :
     AcceptedUpdate(i) /\ updates[i].party = p /\ userId[updates[i].conn] = u}

LastAcceptedFor(p, u) == CHOOSE i \in AcceptedFor(p, u) : \A j \in AcceptedFor(p, u) : j <= i

C36_LatestSampleStored ==
  (\A t \in tasks : t.kind # "update") =>
    \A p \in Parties : \A u \in Users :
      AcceptedFor(p, u) # {} =>
        /\ locStore[p][u].set
        /\ locStore[p][u].sample = StoredSample(updates[LastAcceptedFor(p, u)].loc)

(***************************************************************************)
(* C33. Client throttle: of the samples the sampling callback receives, no *)
(* two that are sent as party:update are less than 1000 ms apart, and a    *)
(* sample that comes more than 1000 ms after the last sent one is sent.    *)
(***************************************************************************)
SamplesSeen == {k \in 1..Len(clientLog) : clientLog[k].ev = "sample"}

SamplesSent == {k \in SamplesSeen : clientLog[k].sent}

AtMostOnePerWindow ==
  \A i, j \in SamplesSent : i < j => clientLog[j].at - clientLog[i].at >= 1000

FirstAfterWindowSent ==
  \A j \in SamplesSeen :
    (/\ \E i \in SamplesSent : i < j
     /\ \A i \in SamplesSent : i < j => clientLog[j].at - clientLog[i].at > 1000)
    => clientLog[j].sent

C33_ClientThrottle == AtMostOnePerWindow /\ FirstAfterWindowSent

(***************************************************************************)
(* C37. Left stays left: once the client has handled party:left, its       *)
(* current party stays null until a later party:joined; no other step (a   *)
(* party-details response of an earlier party:member-joined among them)    *)
(* sets a party again or starts location sharing.                          *)
(***************************************************************************)
HasLeftParty ==
  /\ currentParty = NoParty
  /\ \E k \in 1..Len(clientLog) : clientLog[k].ev = "party:left"

JoinedInStep ==
  /\ Len(clientLog') = Len(clientLog) + 1
  /\ clientLog'[Len(clientLog')].ev = "party:joined"

C37_LeftStaysLeft ==
  [][(HasLeftParty /\ ~JoinedInStep) =>
       /\ currentParty' = NoParty
       /\ \A q \in Parties : sharing'[q] <= sharing[q]
       /\ ~isLocationSharing'
    ]_vars

====
